---- MODULE Spec2Model ----
(***************************************************************************)
(* The iOS application lifecycle state machine of winit                    *)
(* (src/platform_impl/ios/app_state.rs): AppStateImpl, AppState and its    *)
(* EventLoopWaker, driven by the operations the OS glue invokes (Spec);     *)
(* and the event loop facade of src/platform_impl/ios/event_loop.rs with   *)
(* its EventLoopHandler, its proxies and the main run loop, together with  *)
(* the window registration of shared.rs (LoopSpec).                        *)
(*                                                                         *)
(* A fatal error (panic!, bug!, unreachable!, a failed RefCell borrow) ends *)
(* the process: fatal records the diagnostic, the other variables keep   *)
(* the values they had when the error was raised, and no operation runs    *)
(* afterwards.                                                             *)
(***************************************************************************)
EXTENDS Integers, Sequences, FiniteSets, TLC

\* ---------------------------------------------------------------- bounds
MaxTime == 1
MaxWindows == 1
MaxQueuedWindows == 2
MaxEvents == 2
MaxUserEvents == 1
ClockOffset == 1
MaxSenders == 2
MaxSends == 2
MaxConfigs == 2
MaxLoopEvents == 1
MaxInstant == 3
MaxMajor == 12

Times == 0..MaxTime
Windows == 1..MaxWindows
EventIds == 1..MaxEvents
Senders == 1..MaxSenders
Configs == 1..MaxConfigs

\* ---------------------------------------------------------------- values
\* ControlFlow: Poll | Wait | WaitUntil(Instant) | Exit
CF(k, t) == [k |-> k, t |-> t]
Poll == CF("Poll", 0)
Wait == CF("Wait", 0)
Exit == CF("Exit", 0)
WaitUntil(t) == CF("WaitUntil", t)
NoControlFlow == CF("None", 0)
ControlFlow == {Poll, Wait, Exit} \cup {WaitUntil(t) : t \in Times}

\* ControlFlow::default()
ControlFlowDefault == Poll

NoInstant == -1
NoHandler == 0

\* Event<T> as the callback sees it
Ev(ev, cause, st, resume, id) ==
    [ev |-> ev, cause |-> cause, start |-> st, resume |-> resume, id |-> id]
NewEventsInit == Ev("NewEvents", "Init", NoInstant, NoInstant, 0)
NewEventsPoll == Ev("NewEvents", "Poll", NoInstant, NoInstant, 0)
NewEventsWaitCancelled(st, resume) == Ev("NewEvents", "WaitCancelled", st, resume, 0)
NewEventsResumeTimeReached(st, resume) == Ev("NewEvents", "ResumeTimeReached", st, resume, 0)
EventsCleared == Ev("EventsCleared", "-", NoInstant, NoInstant, 0)
LoopDestroyed == Ev("LoopDestroyed", "-", NoInstant, NoInstant, 0)
NonUserEvent(id) == Ev("Event", "-", NoInstant, NoInstant, id)
UserEvent(id) == Ev("UserEvent", "-", NoInstant, NoInstant, id)
WindowDestroyed(w) == Ev("WindowEvent", "Destroyed", NoInstant, NoInstant, w)

\* next fire date of the CFRunLoopTimer, in the CFAbsoluteTime domain
FireDate(k, t) == [k |-> k, t |-> t]
F64Max == FireDate("Max", 0)
F64Min == FireDate("Min", 0)

Phases == {"NotLaunched", "Launching", "ProcessingEvents", "Waiting",
           "PollFinished", "Terminated"}

VARIABLES
    phase,               \* the active variant of AppStateImpl
    queued_windows,      \* NotLaunched / Launching
    queued_events,       \* NotLaunched / Launching
    event_handler,       \* the Box<EventHandler> held by the variant
    active_control_flow, \* ProcessingEvents
    start,               \* Waiting
    control_flow,        \* AppState::control_flow
    waker,               \* next fire date of AppState::waker's timer
    now,                 \* Instant::now()
    rc,                  \* retainCount of every UIWindow
    owned,               \* windows whose creator still holds its reference
    made_key,            \* windows sent makeKeyAndVisible by the last operation
    user_queue,          \* the mpsc channel of user events
    handler_drops,       \* how often the boxed callback was dropped
    nested,              \* callback invocations begun inside another one
    delivered,           \* events the callback received in the last operation
    times_delivered,     \* per non-user event: how often the callback got it
    accepted,            \* non-user events handed over so far
    sent,                \* user events sent so far
    last,                \* the last operation and its argument
    stream,              \* where the callback's event stream stands
    fatal,               \* "none" or the diagnostic of the fatal error
    debug_assertions,    \* cfg!(debug_assertions) of the build
    timers,              \* CFRunLoopTimerCreate calls so far
    os_major,            \* NSProcessInfo operatingSystemVersion.major
    capabilities,        \* AppState::capabilities: <<>> before init_guard,
                         \* then <<supports_safe_area>>
    SINGLETON_INIT,      \* the static of EventLoop::new
    event_loops,         \* EventLoop values constructed so far
    event_loop_held,     \* an EventLoop value exists that run has not consumed
    shared_application,  \* [UIApplication sharedApplication] is not null
    EVENT_HANDLER,       \* the static: "None" or "Some"
    receiver_alive,      \* the channel's Receiver exists
    receiver,            \* the user events in the channel, oldest first
    loop_state,          \* EventLoopHandler::loop_state
    loop_active,         \* LoopState::Running::active_control_flow
    loop_control_flow,   \* EventLoopHandler::control_flow
    loop_start,          \* EventLoopHandler::start
    loop_waker,          \* next fire date of EventLoopWindowTarget::waker
    run_loop,            \* where the main CFRunLoop is
    launched,            \* the app delegate was told didFinishLaunching
    ordered,             \* every notification so far came in run-loop order
    source,              \* per proxy: the state of its CFRunLoopSource
    pc,                  \* per proxy: where its send_event is
    sent_by,             \* per proxy: events the channel took from it
    user_delivered,      \* user events the callback received, in order
    shared,              \* the active variant of SharedImpl
    shared_config,       \* the ConfiguredWindow held by Shared
    closure_calls,       \* how often Shared::run called its closure
    result               \* the Result the last fallible operation returned

\* the fields of AppState and the objects only its operations touch
app_vars == <<phase, queued_windows, queued_events, event_handler,
              active_control_flow, start, control_flow, waker, rc, owned,
              user_queue, handler_drops, nested, sent>>

\* the fields of EventLoopHandler
handler_vars == <<loop_state, loop_active, loop_control_flow, loop_start,
                  loop_waker>>

\* the statics and values of the event loop facade
facade_vars == <<SINGLETON_INIT, event_loops, event_loop_held,
                 shared_application, EVENT_HANDLER, receiver_alive>>

\* the proxies and their senders
proxy_vars == <<source, pc, sent_by>>

\* the window registration
shared_vars == <<shared, shared_config, closure_calls, result>>

\* the operating system's version and what AppState derived from it
capability_vars == <<os_major, capabilities>>

loop_vars == <<debug_assertions, timers, capability_vars, handler_vars, facade_vars, proxy_vars,
               shared_vars, receiver, run_loop, launched, ordered,
               user_delivered>>

vars == <<phase, queued_windows, queued_events, event_handler,
          active_control_flow, start, control_flow, waker, now, rc, owned,
          made_key, user_queue, handler_drops, nested, delivered,
          times_delivered, accepted, sent, last, stream, fatal,
          loop_vars>>

Op(name, arg) == [op |-> name, arg |-> arg]

\* the statics of event_loop.rs at program start, before EventLoop::new, and
\* Shared::default
EventLoopInit ==
    /\ SINGLETON_INIT = FALSE
    /\ event_loops = 0
    /\ event_loop_held = FALSE
    /\ shared_application = FALSE
    /\ EVENT_HANDLER = "None"
    /\ receiver_alive = FALSE
    /\ receiver = <<>>
    /\ loop_state = "Uninitialized"
    /\ loop_active = NoControlFlow
    /\ loop_control_flow = ControlFlowDefault
    /\ loop_start = NoInstant
    /\ loop_waker = F64Max
    /\ run_loop = "none"
    /\ launched = FALSE
    /\ ordered = TRUE
    /\ source = [s \in Senders |-> "none"]
    /\ pc = [s \in Senders |-> "idle"]
    /\ sent_by = [s \in Senders |-> 0]
    /\ user_delivered = <<>>
    /\ shared = "UnconfiguredWindow"
    /\ shared_config = 0
    /\ closure_calls = 0
    /\ result = "none"

\* Capabilities::from, the assertion on the major version
Capabilities_from_assert(major) ==
    IF major >= 8 THEN "none"
    ELSE "winit current requires iOS version 8 or greater"

\* mutant: the safe area is taken to arrive one version later
Capabilities_from_later(major) == <<major > 11>>

\* Capabilities::from
Capabilities_from(major) == <<major >= 11>>

\* AppState::get_mut, init_guard: the fields of the AppState it stores, and
\* the objects of the model's environment at that time
AppStateFields ==
    /\ phase = "NotLaunched"
    /\ queued_windows = <<>>
    /\ queued_events = <<>>
    /\ event_handler = NoHandler
    /\ active_control_flow = NoControlFlow
    /\ start = NoInstant
    /\ control_flow = ControlFlowDefault
    /\ waker = F64Max
    /\ now = 0
    /\ rc = [w \in Windows |-> 0]
    /\ owned = {}
    /\ made_key = <<>>
    /\ user_queue = <<>>
    /\ handler_drops = 0
    /\ nested = 0
    /\ delivered = <<>>
    /\ times_delivered = [e \in EventIds |-> 0]
    /\ accepted = 0
    /\ sent = 0
    /\ last = Op("none", 0)
    /\ stream = "start"
    /\ fatal = "none"

\* AppState::get_mut, init_guard: the state after construction, on the
\* newest of the operating systems considered
AppStateInit ==
    /\ AppStateFields
    /\ timers = 1
    /\ os_major = MaxMajor
    /\ capabilities = Capabilities_from(os_major)

\* the program at its start, in a build with debug assertions
Init ==
    /\ AppStateInit
    /\ debug_assertions = TRUE
    /\ EventLoopInit

\* ------------------------------------------------------------ helpers
Count(e, evs) ==
    Cardinality({i \in 1..Len(evs) : evs[i].ev = "Event" /\ evs[i].id = e})

Occurrences(w, ws) == Cardinality({i \in 1..Len(ws) : ws[i] = w})

\* the callback's event stream after one more event: open after a NewEvents,
\* closed after an EventsCleared, broken once an event arrives that the
\* bracketing does not allow there
StreamNext(st, e) ==
    IF st \in {"broken", "destroyed"} THEN st
    ELSE IF st = "start"
        THEN IF e = NewEventsInit THEN "open" ELSE "broken"
    ELSE IF e.ev = "NewEvents" THEN "open"
    ELSE IF st = "closed" THEN "broken"
    ELSE IF e.ev = "EventsCleared" THEN "closed"
    ELSE IF e.ev = "LoopDestroyed" THEN "destroyed"
    ELSE "open"

RECURSIVE StreamAfter(_, _)
StreamAfter(st, evs) ==
    IF evs = <<>> THEN st ELSE StreamAfter(StreamNext(st, Head(evs)), Tail(evs))

\* what an operation leaves behind for the observer: its name, the events it
\* handed to the callback, the windows it sent makeKeyAndVisible, its diagnostic
Outcome(name, arg, evs, keys, diag) ==
    /\ last' = Op(name, arg)
    /\ stream' = StreamAfter(stream, evs)
    /\ delivered' = evs
    /\ times_delivered' =
           [e \in EventIds |-> times_delivered[e] + Count(e, evs)]
    /\ made_key' = keys
    /\ fatal' = diag

\* RefCell::borrow_mut of the lifecycle state: a second borrow while the first
\* is alive panics
borrow_mut(borrowed) ==
    IF borrowed THEN "already borrowed: BorrowMutError" ELSE "none"

\* the callback is handed &mut control_flow with every event: after at least
\* one invocation the policy is whatever the callback left there
callback_sets(evs, before, cf) == IF evs = <<>> THEN before ELSE cf

\* EventHandler::handle_nonuser_event: the callback is invoked with the event
EventHandler_handle_nonuser_event(event) == <<event>>

\* EventHandler::handle_user_events: the callback is invoked with every user
\* event in the channel, in channel order
EventHandler_handle_user_events(queue) ==
    [i \in 1..Len(queue) |-> UserEvent(queue[i])]

\* ------------------------------------------------------------ the waker
CFAbsoluteTimeGetCurrent == now + ClockOffset

\* EventLoopWaker::new: CFRunLoopTimerCreate with a first fire date of f64::MAX
EventLoopWaker_new == F64Max

\* EventLoopWaker::stop
waker_stop == F64Max

\* EventLoopWaker::start
waker_start == F64Min

\* mutant: the delay is taken for the fire date, the current absolute time is
\* not added
waker_start_at_delay_only(instant) ==
    IF now >= instant
    THEN waker_start
    ELSE FireDate("At", instant - now)

\* mutant: a deadline that has passed is programmed like any other
waker_start_at_past_scheduled(instant) ==
    FireDate("At", CFAbsoluteTimeGetCurrent + (instant - now))

\* EventLoopWaker::start_at
waker_start_at(instant) ==
    IF now >= instant
    THEN waker_start
    ELSE FireDate("At", CFAbsoluteTimeGetCurrent + (instant - now))

\* ------------------------------------------------------------ windows
\* [window release]
release(count) == count - 1

\* [window retain]
retain(count) == count + 1

\* Drop for AppStateImpl: every queued window is released
RECURSIVE drop_queued_windows(_, _)
drop_queued_windows(ws, r) ==
    IF ws = <<>> THEN r
    ELSE drop_queued_windows(Tail(ws),
                             [r EXCEPT ![Head(ws)] = release(r[Head(ws)])])

\* mutant: the release sits inside the branch that runs the dance
RECURSIVE launch_windows_release_in_dance(_, _, _)
launch_windows_release_in_dance(ws, r, keys) ==
    IF ws = <<>> THEN [rc |-> r, keys |-> keys]
    ELSE LET window == Head(ws)
             count == r[window]
         IN launch_windows_release_in_dance(
                Tail(ws),
                IF count > 1 THEN [r EXCEPT ![window] = release(count)] ELSE r,
                IF count > 1 THEN Append(keys, window) ELSE keys)

\* the loop over the queued windows at the end of did_finish_launching
RECURSIVE launch_windows(_, _, _)
launch_windows(ws, r, keys) ==
    IF ws = <<>> THEN [rc |-> r, keys |-> keys]
    ELSE LET window == Head(ws)
             count == r[window]
         IN launch_windows(
                Tail(ws),
                [r EXCEPT ![window] = release(count)],
                IF count > 1 THEN Append(keys, window) ELSE keys)

\* ------------------------------------------------------------ environment
\* the monotonic clock advances
Tick ==
    /\ fatal = "none"
    /\ UNCHANGED loop_vars
    /\ now < MaxTime
    /\ now' = now + 1
    /\ UNCHANGED <<phase, queued_windows, queued_events, event_handler,
                   active_control_flow, start, control_flow, waker, rc, owned,
                   made_key, user_queue, handler_drops, nested, delivered,
                   times_delivered, accepted, sent, last, stream, fatal>>

\* view::create_window: a UIWindow is allocated, its creator holds one reference
create_window(w) ==
    /\ fatal = "none"
    /\ UNCHANGED loop_vars
    /\ rc[w] = 0
    /\ rc' = [rc EXCEPT ![w] = 1]
    /\ owned' = owned \cup {w}
    /\ UNCHANGED <<phase, queued_windows, queued_events, event_handler,
                   active_control_flow, start, control_flow, waker, now,
                   made_key, user_queue, handler_drops, nested, delivered,
                   times_delivered, accepted, sent, last, stream, fatal>>

\* Drop for Running: the creator gives up its reference to the window
release_window(w) ==
    /\ fatal = "none"
    /\ UNCHANGED loop_vars
    /\ w \in owned
    /\ rc' = [rc EXCEPT ![w] = release(rc[w])]
    /\ owned' = owned \ {w}
    /\ UNCHANGED <<phase, queued_windows, queued_events, event_handler,
                   active_control_flow, start, control_flow, waker, now,
                   made_key, user_queue, handler_drops, nested, delivered,
                   times_delivered, accepted, sent, last, stream, fatal>>

\* EventLoopProxy::send_event, from any thread: the channel takes the event
\* while its receiver (owned by the callback's handler) exists
send_event ==
    /\ fatal = "none"
    /\ UNCHANGED loop_vars
    /\ sent < MaxUserEvents
    /\ sent' = sent + 1
    /\ user_queue' = IF handler_drops = 0
                     THEN Append(user_queue, sent + 1)
                     ELSE user_queue
    /\ UNCHANGED <<phase, queued_windows, queued_events, event_handler,
                   active_control_flow, start, control_flow, waker, now, rc,
                   owned, made_key, handler_drops, nested, delivered,
                   times_delivered, accepted, last, stream, fatal>>

\* ------------------------------------------------------------ AppState
\* mutant: Launching, which also holds queued windows, takes the window too
set_key_window_arm_launching_queues(p) ==
    IF p \in {"NotLaunched", "Launching"} THEN "queue"
    ELSE IF p = "ProcessingEvents" THEN "show"
    ELSE IF p = "Terminated" THEN "panic"
    ELSE "unreachable"

\* AppState::set_key_window, the match on the variant
set_key_window_arm(p) ==
    IF p = "NotLaunched" THEN "queue"
    ELSE IF p = "ProcessingEvents" THEN "show"
    ELSE IF p = "Terminated" THEN "panic"
    ELSE "unreachable"

\* AppState::set_key_window
set_key_window(window) ==
    /\ fatal = "none"
    /\ UNCHANGED loop_vars
    /\ rc[window] > 0
    /\ \/ /\ set_key_window_arm(phase) = "queue"
          /\ Len(queued_windows) < MaxQueuedWindows
          /\ queued_windows' = Append(queued_windows, window)
          /\ rc' = [rc EXCEPT ![window] = retain(rc[window])]
          /\ Outcome("set_key_window", window, <<>>, <<>>, "none")
       \/ /\ set_key_window_arm(phase) = "show"
          /\ Outcome("set_key_window", window, <<>>, <<window>>, "none")
          /\ UNCHANGED <<queued_windows, rc>>
       \/ /\ set_key_window_arm(phase) = "panic"
          /\ Outcome("set_key_window", window, <<>>, <<>>,
                     "Attempt to create a Window after the app has terminated")
          /\ UNCHANGED <<queued_windows, rc>>
       \/ /\ set_key_window_arm(phase) = "unreachable"
          /\ Outcome("set_key_window", window, <<>>, <<>>, "unreachable")
          /\ UNCHANGED <<queued_windows, rc>>
    /\ UNCHANGED <<phase, queued_events, event_handler, active_control_flow,
                   start, control_flow, waker, now, owned, user_queue,
                   handler_drops, nested, accepted, sent>>

\* mutant: a plain assignment, which drops the variant in place and with it
\* releases the windows it queued
assign_over(ws, r) == drop_queued_windows(ws, r)

\* ptr::write(&mut self.app_state, ..): the variant in place is overwritten
\* without being dropped, so the windows it queued are not released
ptr_write_over(ws, r) == r

\* AppState::will_launch
will_launch(queued_event_handler) ==
    /\ fatal = "none"
    /\ UNCHANGED loop_vars
    /\ \/ /\ phase = "NotLaunched"
          \* ptr::read moves both queues out, ptr::write overwrites the old
          \* variant without dropping it
          /\ phase' = "Launching"
          /\ event_handler' = queued_event_handler
          /\ rc' = ptr_write_over(queued_windows, rc)
          /\ Outcome("will_launch", queued_event_handler, <<>>, <<>>, "none")
       \/ /\ phase # "NotLaunched"
          /\ Outcome("will_launch", queued_event_handler, <<>>, <<>>,
                     "expected the app to be in a NotLaunched state")
          /\ UNCHANGED <<phase, event_handler, rc>>
    /\ UNCHANGED <<queued_windows, queued_events, active_control_flow, start,
                   control_flow, waker, now, owned, user_queue,
                   handler_drops, nested, accepted, sent>>

\* AppState::get_mut, "requires main thread": the calling thread is not
\* examined
get_mut_thread_check(main_thread) == "none"

\* AppState::get_mut().will_launch(..) called from a thread. Off the main
\* thread the unsynchronised static RefCell is raced for: the call goes through
\* as on the main thread, or finds the borrow flag taken
AppState_will_launch(main_thread, queued_event_handler) ==
    IF get_mut_thread_check(main_thread) # "none"
    THEN /\ fatal = "none"
         /\ Outcome("will_launch", queued_event_handler, <<>>, <<>>,
                    get_mut_thread_check(main_thread))
         /\ UNCHANGED <<app_vars, now, accepted, loop_vars>>
    ELSE \/ will_launch(queued_event_handler)
         \/ /\ ~main_thread
            /\ fatal = "none"
            /\ Outcome("will_launch", queued_event_handler, <<>>, <<>>,
                       borrow_mut(TRUE))
            /\ UNCHANGED <<app_vars, now, accepted, loop_vars>>

\* mutant: the queued events are replayed before Init is delivered
launch_events_init_late(events, users) ==
    [i \in 1..Len(events) |-> NonUserEvent(events[i])]
    \o EventHandler_handle_nonuser_event(NewEventsInit)
    \o EventHandler_handle_user_events(users)

\* AppState::did_finish_launching, the calls into the handler: Init, then the
\* queued events in queue order, then the user events
launch_events(events, users) ==
    EventHandler_handle_nonuser_event(NewEventsInit)
    \o [i \in 1..Len(events) |-> NonUserEvent(events[i])]
    \o EventHandler_handle_user_events(users)

\* mutant: an event that arrives while the loop is idle is delivered
nonuser_event_arm_idle_delivers(p) ==
    IF p \in {"Launching", "NotLaunched"} THEN "queue"
    ELSE IF p \in {"ProcessingEvents", "Waiting", "PollFinished"} THEN "deliver"
    ELSE "bug"

\* mutant: an event that arrives after termination is still delivered
nonuser_event_arm_after_termination(p) ==
    IF p \in {"Launching", "NotLaunched"} THEN "queue"
    ELSE IF p \in {"ProcessingEvents", "Terminated"} THEN "deliver"
    ELSE "bug"

\* AppState::handle_nonuser_event, the match on the variant
nonuser_event_arm(p) ==
    IF p \in {"Launching", "NotLaunched"} THEN "queue"
    ELSE IF p = "ProcessingEvents" THEN "deliver"
    ELSE "bug"

\* mutant: the loop over the windows runs inside the borrow
dance_borrowed_held == TRUE

\* AppState::did_finish_launching, drop(this) before the loop over the
\* windows: the state is not borrowed while the dance runs
dance_borrowed == FALSE

\* AppState::did_finish_launching; raises: makeKeyAndVisible of the dance calls
\* back into the lifecycle synchronously with a window event
did_finish_launching ==
    /\ fatal = "none"
    /\ UNCHANGED loop_vars
    /\ \/ /\ phase = "Launching"
          /\ \E raises \in BOOLEAN :
              LET evs == launch_events(queued_events, user_queue)
                  done == launch_windows(queued_windows, rc, <<>>)
                  inner == IF raises THEN borrow_mut(dance_borrowed)
                           ELSE "none"
                  raised ==
                      IF raises /\ inner = "none"
                         /\ nonuser_event_arm("ProcessingEvents") = "deliver"
                      THEN EventHandler_handle_nonuser_event(
                               NonUserEvent(accepted + 1))
                      ELSE <<>>
              IN /\ raises => done.keys # <<>> /\ accepted < MaxEvents
                 /\ accepted' = IF raises THEN accepted + 1 ELSE accepted
                 /\ phase' = "ProcessingEvents"
                 /\ active_control_flow' = Poll
                 /\ queued_windows' = <<>>
                 /\ queued_events' = <<>>
                 /\ user_queue' = <<>>
                 /\ \E cf \in ControlFlow :
                        control_flow' =
                            callback_sets(evs \o raised, control_flow, cf)
                 /\ rc' = done.rc
                 /\ Outcome("did_finish_launching", 0, evs \o raised,
                            done.keys, inner)
       \/ /\ phase # "Launching"
          /\ Outcome("did_finish_launching", 0, <<>>, <<>>,
                     "expected the app to be in a Launching state")
          /\ UNCHANGED <<phase, active_control_flow, queued_windows,
                         queued_events, user_queue, control_flow, rc,
                         accepted>>
    /\ UNCHANGED <<event_handler, start, waker, now, owned, handler_drops,
                   nested, sent>>

\* mutant: the deadline counts as reached only once it has been passed
wakeup_cause_strictly_later(cf, st) ==
    IF cf = Poll
        THEN [from |-> "PollFinished", event |-> NewEventsPoll,
              bug |-> "EventHandler unexpectedly started polling"]
    ELSE IF cf = Wait
        THEN [from |-> "Waiting",
              event |-> NewEventsWaitCancelled(st, NoInstant),
              bug |-> "EventHandler unexpectedly woke up"]
    ELSE IF cf.k = "WaitUntil"
        THEN [from |-> "Waiting",
              event |-> IF now > cf.t
                        THEN NewEventsResumeTimeReached(st, cf.t)
                        ELSE NewEventsWaitCancelled(st, cf.t),
              bug |-> "EventHandler unexpectedly woke up"]
    ELSE [from |-> "none", event |-> NewEventsPoll,
          bug |-> "unexpected controlflow Exit"]

\* mutant: a wakeup from Wait is reported as a poll
wakeup_cause_wait_as_poll(cf, st) ==
    IF cf = Poll
        THEN [from |-> "PollFinished", event |-> NewEventsPoll,
              bug |-> "EventHandler unexpectedly started polling"]
    ELSE IF cf = Wait
        THEN [from |-> "Waiting", event |-> NewEventsPoll,
              bug |-> "EventHandler unexpectedly woke up"]
    ELSE IF cf.k = "WaitUntil"
        THEN [from |-> "Waiting",
              event |-> IF now >= cf.t
                        THEN NewEventsResumeTimeReached(st, cf.t)
                        ELSE NewEventsWaitCancelled(st, cf.t),
              bug |-> "EventHandler unexpectedly woke up"]
    ELSE [from |-> "none", event |-> NewEventsPoll,
          bug |-> "unexpected controlflow Exit"]

\* AppState::handle_wakeup_transition, the match on self.control_flow: the
\* phase the wakeup must find, the policy it resumes with and the start cause
wakeup_cause(cf, st) ==
    IF cf = Poll
        THEN [from |-> "PollFinished", event |-> NewEventsPoll,
              bug |-> "EventHandler unexpectedly started polling"]
    ELSE IF cf = Wait
        THEN [from |-> "Waiting",
              event |-> NewEventsWaitCancelled(st, NoInstant),
              bug |-> "EventHandler unexpectedly woke up"]
    ELSE IF cf.k = "WaitUntil"
        THEN [from |-> "Waiting",
              event |-> IF now >= cf.t
                        THEN NewEventsResumeTimeReached(st, cf.t)
                        ELSE NewEventsWaitCancelled(st, cf.t),
              bug |-> "EventHandler unexpectedly woke up"]
    ELSE [from |-> "none", event |-> NewEventsPoll,
          bug |-> "unexpected controlflow Exit"]

\* AppState::handle_wakeup_transition
handle_wakeup_transition ==
    /\ fatal = "none"
    /\ UNCHANGED loop_vars
    /\ LET w == wakeup_cause(control_flow, start)
       IN \/ /\ control_flow # Exit
             /\ phase \in {"NotLaunched", "Launching"}
             /\ Outcome("handle_wakeup", 0, <<>>, <<>>, "none")
             /\ UNCHANGED <<phase, active_control_flow, start, control_flow>>
          \/ /\ control_flow # Exit
             /\ phase = w.from
             /\ phase' = "ProcessingEvents"
             /\ active_control_flow' = control_flow
             /\ start' = NoInstant
             /\ LET evs == EventHandler_handle_nonuser_event(w.event)
                IN /\ \E cf \in ControlFlow :
                          control_flow' = callback_sets(evs, control_flow, cf)
                   /\ Outcome("handle_wakeup", 0, evs, <<>>, "none")
          \/ /\ \/ control_flow = Exit
                \/ phase \notin {"NotLaunched", "Launching", w.from}
             /\ Outcome("handle_wakeup", 0, <<>>, <<>>, w.bug)
             /\ UNCHANGED <<phase, active_control_flow, start, control_flow>>
    /\ UNCHANGED <<queued_windows, queued_events, event_handler, waker, now,
                   rc, owned, user_queue, handler_drops, nested, accepted,
                   sent>>

\* AppState::handle_nonuser_event; reenters: the callback, while it handles
\* the event, calls a lifecycle entry point (AppState::get_mut)
handle_nonuser_event(reenters) ==
    /\ fatal = "none"
    /\ UNCHANGED loop_vars
    /\ accepted < MaxEvents
    /\ accepted' = accepted + 1
    /\ LET event == accepted + 1
       IN \/ /\ nonuser_event_arm(phase) = "queue"
             /\ ~reenters
             /\ queued_events' = Append(queued_events, event)
             /\ Outcome("handle_nonuser_event", event, <<>>, <<>>, "none")
             /\ UNCHANGED <<control_flow, nested>>
          \/ /\ nonuser_event_arm(phase) = "deliver"
             /\ LET evs == EventHandler_handle_nonuser_event(NonUserEvent(event))
                    inner == IF reenters THEN borrow_mut(TRUE) ELSE "none"
                IN /\ \E cf \in ControlFlow :
                          control_flow' = callback_sets(evs, control_flow, cf)
                   /\ nested' = IF reenters /\ inner = "none"
                                THEN nested + 1 ELSE nested
                   /\ Outcome("handle_nonuser_event", event, evs, <<>>, inner)
             /\ UNCHANGED queued_events
          \/ /\ nonuser_event_arm(phase) = "bug"
             /\ ~reenters
             /\ Outcome("handle_nonuser_event", event, <<>>, <<>>,
                        "unexpected attempted to process an event")
             /\ UNCHANGED <<queued_events, control_flow, nested>>
    /\ UNCHANGED <<phase, queued_windows, event_handler, active_control_flow,
                   start, waker, now, rc, owned, user_queue, handler_drops,
                   sent>>

\* AppState::handle_user_events
handle_user_events ==
    /\ fatal = "none"
    /\ UNCHANGED loop_vars
    /\ \/ /\ phase \in {"NotLaunched", "Launching"}
          /\ Outcome("handle_user_events", 0, <<>>, <<>>, "none")
          /\ UNCHANGED <<user_queue, control_flow>>
       \/ /\ phase = "ProcessingEvents"
          /\ LET evs == EventHandler_handle_user_events(user_queue)
             IN /\ user_queue' = <<>>
                /\ \E cf \in ControlFlow :
                       control_flow' = callback_sets(evs, control_flow, cf)
                /\ Outcome("handle_user_events", 0, evs, <<>>, "none")
       \/ /\ phase \in {"PollFinished", "Waiting", "Terminated"}
          /\ Outcome("handle_user_events", 0, <<>>, <<>>,
                     "unexpected attempted to process an event")
          /\ UNCHANGED <<user_queue, control_flow>>
    /\ UNCHANGED <<phase, queued_windows, queued_events, event_handler,
                   active_control_flow, start, waker, now, rc, owned,
                   handler_drops, nested, accepted, sent>>

\* mutant: the copy is a plain Box, dropped at the end of an arm that leaves it
\* unused
copy_is_plain_box == FALSE

\* AppState::handle_events_cleared, ManuallyDrop::new(ptr::read(event_handler)):
\* the copy of the box taken out of the variant is not dropped when an arm
\* leaves it unused
copy_is_manually_drop == TRUE

\* mutant: a new WaitUntil stops the waker as a new Wait does
control_flow_arm_wait_until_stops(old, new) ==
    IF old = Poll /\ new = Poll
        THEN [phase |-> "PollFinished", start |-> NoInstant, waker |-> waker,
              control_flow |-> new]
    ELSE IF old = Wait /\ new = Wait
        THEN [phase |-> "Waiting", start |-> now, waker |-> waker,
              control_flow |-> new]
    ELSE IF old.k = "WaitUntil" /\ new.k = "WaitUntil" /\ old.t = new.t
        THEN [phase |-> "Waiting", start |-> now, waker |-> waker,
              control_flow |-> new]
    ELSE IF new = Wait \/ new.k = "WaitUntil"
        THEN [phase |-> "Waiting", start |-> now, waker |-> waker_stop,
              control_flow |-> new]
    ELSE IF new = Poll
        THEN [phase |-> "PollFinished", start |-> NoInstant,
              waker |-> waker_start, control_flow |-> new]
    ELSE [phase |-> "ProcessingEvents", start |-> NoInstant, waker |-> waker,
          control_flow |-> old]

\* AppState::handle_events_cleared, match (old, new): the variant written, the
\* waker's fire date and the stored policy each arm leaves
control_flow_arm(old, new) ==
    IF old = Poll /\ new = Poll
        THEN [phase |-> "PollFinished", start |-> NoInstant, waker |-> waker,
              control_flow |-> new]
    ELSE IF old = Wait /\ new = Wait
        THEN [phase |-> "Waiting", start |-> now, waker |-> waker,
              control_flow |-> new]
    ELSE IF old.k = "WaitUntil" /\ new.k = "WaitUntil" /\ old.t = new.t
        THEN [phase |-> "Waiting", start |-> now, waker |-> waker,
              control_flow |-> new]
    ELSE IF new = Wait
        THEN [phase |-> "Waiting", start |-> now, waker |-> waker_stop,
              control_flow |-> new]
    ELSE IF new.k = "WaitUntil"
        THEN [phase |-> "Waiting", start |-> now,
              waker |-> waker_start_at(new.t), control_flow |-> new]
    ELSE IF new = Poll
        THEN [phase |-> "PollFinished", start |-> NoInstant,
              waker |-> waker_start, control_flow |-> new]
    ELSE \* (_, ControlFlow::Exit): no variant is written
         [phase |-> "ProcessingEvents", start |-> NoInstant, waker |-> waker,
          control_flow |-> old]

\* mutant: an idle loop takes the notification in silence, as before launch
events_cleared_arm_idle_returns(p) ==
    IF p = "ProcessingEvents" THEN "compare"
    ELSE IF p = "Terminated" THEN "bug"
    ELSE "return"

\* AppState::handle_events_cleared, the first match on the variant
events_cleared_arm(p) ==
    IF p \in {"NotLaunched", "Launching"} THEN "return"
    ELSE IF p = "ProcessingEvents" THEN "compare"
    ELSE "bug"

\* AppState::handle_events_cleared
handle_events_cleared ==
    /\ fatal = "none"
    /\ UNCHANGED loop_vars
    /\ \/ /\ events_cleared_arm(phase) = "return"
          /\ Outcome("handle_events_cleared", 0, <<>>, <<>>, "none")
          /\ UNCHANGED <<phase, active_control_flow, start, control_flow,
                         waker, handler_drops>>
       \/ /\ events_cleared_arm(phase) = "compare"
          /\ LET arm == control_flow_arm(active_control_flow, control_flow)
             IN /\ phase' = arm.phase
                /\ start' = arm.start
                /\ waker' = arm.waker
                /\ IF arm.phase \in {"PollFinished", "Waiting"}
                   THEN \* the variant holds the handler again: EventsCleared
                        \* goes to the callback
                        LET evs == EventHandler_handle_nonuser_event(EventsCleared)
                        IN /\ active_control_flow' = NoControlFlow
                           /\ handler_drops' = handler_drops
                           /\ \E cf \in ControlFlow :
                                  control_flow' =
                                      callback_sets(evs, arm.control_flow, cf)
                           /\ Outcome("handle_events_cleared", 0, evs, <<>>,
                                      "none")
                   ELSE \* still ProcessingEvents: the final match panics
                        /\ active_control_flow' = active_control_flow
                        /\ handler_drops' = IF copy_is_manually_drop
                                            THEN handler_drops
                                            ELSE handler_drops + 1
                        /\ control_flow' = arm.control_flow
                        /\ Outcome("handle_events_cleared", 0, <<>>, <<>>,
                                   "unreachable")
       \/ /\ events_cleared_arm(phase) = "bug"
          /\ Outcome("handle_events_cleared", 0, <<>>, <<>>,
                     "EventHandler expected to be processing events, but was not")
          /\ UNCHANGED <<phase, active_control_flow, start, control_flow,
                         waker, handler_drops>>
    /\ UNCHANGED <<queued_windows, queued_events, event_handler, now, rc,
                   owned, user_queue, nested, accepted, sent>>

\* mutant: the termination is accepted from every phase that is not Terminated
terminated_delivers_anywhere(old) == old # "Terminated"

\* mutant: an idle loop is handed LoopDestroyed as well
terminated_delivers_when_idle(old) ==
    old \in {"ProcessingEvents", "Waiting", "PollFinished"}

\* AppState::terminated, if let AppStateImpl::ProcessingEvents { .. } = old
terminated_delivers(old) == old = "ProcessingEvents"

\* AppState::terminated: mem::replace puts Terminated in place first; the old
\* variant is dropped when the function returns or unwinds
terminated ==
    /\ fatal = "none"
    /\ UNCHANGED loop_vars
    /\ phase' = "Terminated"
    /\ event_handler' = NoHandler
    /\ handler_drops' = IF event_handler # NoHandler
                        THEN handler_drops + 1 ELSE handler_drops
    /\ active_control_flow' = NoControlFlow
    /\ start' = NoInstant
    /\ queued_windows' = <<>>
    /\ queued_events' = <<>>
    /\ rc' = drop_queued_windows(queued_windows, rc)
    /\ \/ /\ terminated_delivers(phase)
          /\ LET evs == EventHandler_handle_nonuser_event(LoopDestroyed)
             IN /\ \E cf \in ControlFlow :
                       control_flow' = callback_sets(evs, control_flow, cf)
                /\ Outcome("terminated", 0, evs, <<>>, "none")
       \/ /\ ~terminated_delivers(phase)
          /\ Outcome("terminated", 0, <<>>, <<>>,
                     "LoopDestroyed happened while not processing events")
          /\ UNCHANGED control_flow
    /\ UNCHANGED <<waker, now, owned, user_queue, nested, accepted, sent>>

\* ------------------------------------------------------- EventLoopHandler
\* RawEvent: Init | WaitCancelled | EventsCleared | Poll | Exit | Event(..)
Raw(k, event) == [k |-> k, event |-> event]
RawInit == Raw("Init", EventsCleared)
RawWaitCancelled == Raw("WaitCancelled", EventsCleared)
RawEventsCleared == Raw("EventsCleared", EventsCleared)
RawPoll == Raw("Poll", EventsCleared)
RawExit == Raw("Exit", EventsCleared)
RawEvent(event) == Raw("Event", event)

\* the fields of the EventLoopHandler the transitions read and write
Handler(ls, active, cf, st, wk) ==
    [loop_state |-> ls, active |-> active, control_flow |-> cf,
     start |-> st, waker |-> wk]

\* debug_bug_assert!, debug_bug_assert_eq!: checked only in a build with
\* debug assertions
debug_bug_assert(cond, msg) ==
    IF debug_assertions /\ ~cond THEN msg ELSE "none"

\* debug_bug!: a panic only in a build with debug assertions
debug_bug(msg) == IF debug_assertions THEN msg ELSE "none"

\* the first of two checks that fails
FirstFailure(d1, d2) == IF d1 # "none" THEN d1 ELSE d2

\* what handle_loop_state_transition returns: the handler as it leaves it, the
\* event for the callback, the expiring policy (or none) and its diagnostic
Transition(h, event, ecf, diag) ==
    [h |-> h, event |-> event, ecf |-> ecf, diag |-> diag]

\* EventLoopHandler::handle_loop_state_transition
handle_loop_state_transition(raw, h) ==
    LET cf == h.control_flow
        no_start == debug_bug_assert(h.start = NoInstant,
                        "EventHandler has an unexpected start time")
        resumed == debug_bug_assert(h.loop_state = "NotRunning",
                        "Resuming a resumed EventLoop")
    IN IF cf = Exit \/ raw.k \in {"Exit", "Poll"}
           THEN Transition(h, raw.event, NoControlFlow, "unexpected ControlFlow")
       ELSE IF raw.k = "Init" /\ cf = Poll
           THEN LET d == FirstFailure(
                         debug_bug_assert(h.loop_state = "Uninitialized",
                                          "Init sent more than once"),
                         no_start)
                IN IF d # "none"
                   THEN Transition(h, NewEventsInit, NoControlFlow, d)
                   ELSE Transition([h EXCEPT !.loop_state = "Running",
                                             !.active = Poll,
                                             !.waker = waker_start],
                                   NewEventsInit, NoControlFlow, "none")
       ELSE IF raw.k = "Init"
           THEN Transition(h, NewEventsInit, NoControlFlow,
                           "Init sent with unexpected control flow")
       ELSE IF raw.k = "WaitCancelled" /\ cf = Poll
           THEN LET d == FirstFailure(resumed, no_start)
                IN IF d # "none"
                   THEN Transition(h, NewEventsPoll, NoControlFlow, d)
                   ELSE Transition([h EXCEPT !.loop_state = "Running",
                                             !.active = Poll],
                                   NewEventsPoll, NoControlFlow, "none")
       ELSE IF raw.k = "WaitCancelled"
           THEN \* Wait or WaitUntil: the start time is taken out of the handler
                LET running == [h EXCEPT !.loop_state = "Running",
                                         !.active = cf]
                    taken == [running EXCEPT !.start = NoInstant]
                    resume == IF cf = Wait THEN NoInstant ELSE cf.t
                    event == IF cf.k = "WaitUntil" /\ now >= cf.t
                             THEN NewEventsResumeTimeReached(h.start, cf.t)
                             ELSE NewEventsWaitCancelled(h.start, resume)
                IN IF resumed # "none"
                       THEN Transition(h, event, NoControlFlow, resumed)
                   ELSE IF h.start = NoInstant
                       THEN Transition(running, event, NoControlFlow,
                                "EventHandler expected start time, found None")
                   ELSE Transition(taken, event, NoControlFlow, "none")
       ELSE IF raw.k = "EventsCleared"
           THEN IF no_start # "none"
                    THEN Transition(h, EventsCleared, NoControlFlow, no_start)
                ELSE IF h.loop_state = "Running"
                    THEN Transition([h EXCEPT !.loop_state = "NotRunning",
                                              !.active = NoControlFlow],
                                    EventsCleared, h.active, "none")
                ELSE Transition(h, EventsCleared, NoControlFlow,
                         "EventsCleared sent for an EventLoop that is not currently processing events")
       ELSE \* RawEvent::Event
            Transition(h, raw.event, NoControlFlow,
                FirstFailure(
                    debug_bug_assert(h.loop_state = "Running",
                        "Event sent for an EventLoop that is not currently processing events"),
                    no_start))

\* EventLoopHandler::handle_control_flow_transition
handle_control_flow_transition(old, h) ==
    LET new == h.control_flow
    IN IF old = Poll /\ new = Poll THEN h
       ELSE IF old = Wait /\ new = Wait THEN [h EXCEPT !.start = now]
       ELSE IF old.k = "WaitUntil" /\ new.k = "WaitUntil" /\ old.t = new.t
           THEN [h EXCEPT !.start = now]
       ELSE IF new = Wait
           THEN [h EXCEPT !.start = now, !.waker = waker_stop]
       ELSE IF new.k = "WaitUntil"
           THEN [h EXCEPT !.start = now, !.waker = waker_start_at(new.t)]
       ELSE IF new = Poll THEN [h EXCEPT !.waker = waker_start]
       ELSE \* (_, ControlFlow::Exit): ignored, the old policy is restored
            [h EXCEPT !.control_flow = old]

\* what a handler operation leaves: the handler, the events it handed to the
\* callback, the channel and its diagnostic
Handled(h, evs, queue, diag) ==
    [h |-> h, evs |-> evs, queue |-> queue, diag |-> diag]

\* mutant: the channel is drained newest first
try_iter_newest_first(queue) ==
    [i \in 1..Len(queue) |-> queue[Len(queue) + 1 - i]]

\* Receiver::try_iter: every event in the channel, oldest first
try_iter(queue) == queue

\* mutant: the channel is drained before Init as well
user_events_arm_before_init(ls) ==
    IF ls = "NotRunning" THEN "debug_bug" ELSE "deliver"

\* EventLoopHandler::handle_user_events, the match on the loop state
user_events_arm(ls) ==
    IF ls = "Uninitialized" THEN "ignore"
    ELSE IF ls = "NotRunning" THEN "debug_bug"
    ELSE "deliver"

\* EventLoopHandler::handle_user_events
EventLoopHandler_handle_user_events(h, queue) ==
    IF user_events_arm(h.loop_state) = "ignore"
        THEN Handled(h, <<>>, queue, "none")
    ELSE IF user_events_arm(h.loop_state) = "debug_bug"
        THEN Handled(h, <<>>, queue,
                 debug_bug("User event sent for an EventLoop that is not currently processing events"))
    ELSE LET d == debug_bug_assert(h.start = NoInstant,
                      "EventHandler has an unexpected start time")
             events == try_iter(queue)
         IN IF d # "none"
            THEN Handled(h, <<>>, queue, d)
            ELSE Handled(h, [i \in 1..Len(events) |-> UserEvent(events[i])],
                         <<>>, "none")

\* EventLoopHandler::handle_nonuser_event; cf is the policy the callback
\* leaves in &mut self.control_flow when it is invoked
EventLoopHandler_handle_nonuser_event(raw, h, queue, cf) ==
    IF h.loop_state = "Uninitialized" /\ raw.k = "Init"
        THEN LET t == handle_loop_state_transition(raw, h)
                 u == EventLoopHandler_handle_user_events(
                          [t.h EXCEPT !.control_flow = cf], queue)
             IN IF t.diag # "none"
                THEN Handled(t.h, <<>>, queue, t.diag)
                ELSE Handled(u.h, <<t.event>> \o u.evs, u.queue, u.diag)
    ELSE IF h.loop_state = "Uninitialized"
        THEN \* ignored until Init is sent
             Handled(h, <<>>, queue, "none")
    ELSE LET t == handle_loop_state_transition(raw, h)
             called == [t.h EXCEPT !.control_flow = cf]
         IN IF t.diag # "none"
                THEN Handled(t.h, <<>>, queue, t.diag)
            ELSE IF t.ecf # NoControlFlow
                THEN Handled(handle_control_flow_transition(t.ecf, called),
                             <<t.event>>, queue, "none")
            ELSE Handled(called, <<t.event>>, queue, "none")

\* the identity of the n-th user event of sender s
UserId(s, n) == s * 100 + n
SenderOf(id) == id \div 100
SeqOf(id) == id % 100

\* the user events among the events handed to the callback
RECURSIVE UserIdsOf(_)
UserIdsOf(evs) ==
    IF evs = <<>> THEN <<>>
    ELSE IF Head(evs).ev = "UserEvent"
        THEN <<Head(evs).id>> \o UserIdsOf(Tail(evs))
    ELSE UserIdsOf(Tail(evs))

this_handler ==
    Handler(loop_state, loop_active, loop_control_flow, loop_start, loop_waker)

\* the handler's fields take the values of h
StoreHandler(h) ==
    /\ loop_state' = h.loop_state
    /\ loop_active' = h.active
    /\ loop_control_flow' = h.control_flow
    /\ loop_start' = h.start
    /\ loop_waker' = h.waker

\* a handler operation has run: its results are stored and recorded
Apply(name, arg, r) ==
    /\ StoreHandler(r.h)
    /\ receiver' = r.queue
    /\ user_delivered' = user_delivered \o UserIdsOf(r.evs)
    /\ Outcome(name, arg, r.evs, <<>>, r.diag)

\* event_loop::process_erased_event of an event other than LoopDestroyed
process_erased_event(name, arg, raw) ==
    \/ /\ EVENT_HANDLER = "None"
       /\ Outcome(name, arg, <<>>, <<>>,
                  "attempt to process an event without a running EventLoop")
       /\ UNCHANGED <<handler_vars, receiver, user_delivered>>
    \/ /\ EVENT_HANDLER = "Some"
       /\ \E cf \in ControlFlow :
              Apply(name, arg,
                    EventLoopHandler_handle_nonuser_event(
                        raw, this_handler, receiver, cf))

\* ------------------------------------------------------------ the facade
\* mutant: the flag is never set
singleton_flag_after_new_unset(flag) == flag

\* EventLoop::new, SINGLETON_INIT = true
singleton_flag_after_new(flag) == TRUE

\* EventLoop::new; main_thread: the calling thread is the main thread
EventLoop_new(main_thread) ==
    /\ fatal = "none"
    /\ \/ /\ ~main_thread
          /\ Outcome("EventLoop_new", 0, <<>>, <<>>,
                     "EventLoop can only be created on the main thread on iOS")
          /\ UNCHANGED <<facade_vars, loop_waker, timers>>
       \/ /\ main_thread
          /\ SINGLETON_INIT
          /\ Outcome("EventLoop_new", 0, <<>>, <<>>,
                     "Only one EventLoop is supported on iOS")
          /\ UNCHANGED <<facade_vars, loop_waker, timers>>
       \/ /\ main_thread
          /\ ~SINGLETON_INIT
          /\ SINGLETON_INIT' = singleton_flag_after_new(SINGLETON_INIT)
          /\ event_loops' = event_loops + 1
          /\ event_loop_held' = TRUE
          /\ receiver_alive' = TRUE
          /\ loop_waker' = EventLoopWaker_new
          /\ timers' = timers + 1
          /\ Outcome("EventLoop_new", 0, <<>>, <<>>, "none")
          /\ UNCHANGED <<shared_application, EVENT_HANDLER>>
    /\ UNCHANGED <<app_vars, now, accepted, debug_assertions, capability_vars, loop_state,
                   loop_active, loop_control_flow, loop_start, proxy_vars,
                   shared_vars, receiver, run_loop, launched, ordered,
                   user_delivered>>

\* EventLoop::run, the two assertions before the handler is installed
run_check(application, handler) ==
    IF application
    THEN "EventLoop cannot be run after a call to UIApplicationMain on iOS"
    ELSE debug_bug_assert(handler = "None",
                          "multiple EventLoops are unsupported on iOS")

\* EventLoop::run: consumes the EventLoop, installs the handler and calls
\* UIApplicationMain, which does not return
EventLoop_run ==
    /\ fatal = "none"
    /\ event_loop_held
    /\ LET d == run_check(shared_application, EVENT_HANDLER)
       IN \/ /\ d # "none"
             /\ Outcome("EventLoop_run", 0, <<>>, <<>>, d)
             /\ UNCHANGED <<facade_vars, handler_vars, run_loop>>
          \/ /\ d = "none"
             /\ EVENT_HANDLER' = "Some"
             /\ event_loop_held' = FALSE
             /\ shared_application' = TRUE
             /\ StoreHandler(Handler("Uninitialized", NoControlFlow,
                                     ControlFlowDefault, NoInstant, loop_waker))
             /\ run_loop' = "called"
             /\ Outcome("EventLoop_run", 0, <<>>, <<>>, "none")
             /\ UNCHANGED <<SINGLETON_INIT, event_loops, receiver_alive>>
    /\ UNCHANGED <<app_vars, now, accepted, debug_assertions, timers, capability_vars, proxy_vars,
                   shared_vars, receiver, launched, ordered, user_delivered>>

\* ------------------------------------------------------------ the proxies
LiveProxies == {s \in Senders : source[s] \in {"idle", "signalled"}}

\* the user events the channel has taken so far
RECURSIVE SentUpTo(_)
SentUpTo(s) == IF s = 0 THEN 0 ELSE sent_by[s] + SentUpTo(s - 1)

\* EventLoopProxy::new, reached from EventLoop::create_proxy or from the Clone
\* of a proxy: a run-loop source is created and added to the main run loop
EventLoopProxy_new(s) ==
    /\ fatal = "none"
    /\ source[s] = "none"
    /\ event_loop_held \/ LiveProxies # {}
    /\ source' = [source EXCEPT ![s] = "idle"]
    /\ UNCHANGED <<app_vars, now, accepted, made_key, delivered,
                   times_delivered, last, stream, fatal, debug_assertions, timers, capability_vars,
                   handler_vars, facade_vars, pc, sent_by,
                   shared_vars, receiver, run_loop, launched, ordered,
                   user_delivered>>

\* Drop for EventLoopProxy: CFRunLoopSourceInvalidate, after which the source
\* never fires
EventLoopProxy_drop(s) ==
    /\ fatal = "none"
    /\ s \in LiveProxies
    /\ pc[s] = "idle"
    /\ source' = [source EXCEPT ![s] = "invalid"]
    /\ UNCHANGED <<app_vars, now, accepted, made_key, delivered,
                   times_delivered, last, stream, fatal, debug_assertions, timers, capability_vars,
                   handler_vars, facade_vars, pc, sent_by,
                   shared_vars, receiver, run_loop, launched, ordered,
                   user_delivered>>

\* mutant: the closed channel is not reported
send_map_err_ok(alive) == "Ok"

\* EventLoopProxy::send_event, self.sender.send(event).map_err(..)?
send_map_err(alive) == IF alive THEN "Ok" ELSE "EventLoopClosed"

\* EventLoopProxy::send_event, first half, on the sender's thread: the channel
\* takes the event unless its receiver is gone
send_event_send(s) ==
    /\ fatal = "none"
    /\ s \in LiveProxies
    /\ pc[s] = "idle"
    /\ SentUpTo(MaxSenders) < MaxSends
    /\ \/ /\ send_map_err(receiver_alive) = "Ok"
          /\ receiver' = Append(receiver, UserId(s, sent_by[s] + 1))
          /\ sent_by' = [sent_by EXCEPT ![s] = sent_by[s] + 1]
          /\ pc' = [pc EXCEPT ![s] = "signal"]
          /\ UNCHANGED result
       \/ /\ send_map_err(receiver_alive) # "Ok"
          /\ result' = send_map_err(receiver_alive)
          /\ UNCHANGED <<receiver, sent_by, pc>>
    /\ UNCHANGED <<app_vars, now, accepted, made_key, delivered,
                   times_delivered, last, stream, fatal, debug_assertions, timers, capability_vars,
                   handler_vars, facade_vars, source, shared, shared_config,
                   closure_calls, run_loop, launched, ordered, user_delivered>>

\* EventLoopProxy::send_event, second half: CFRunLoopSourceSignal,
\* CFRunLoopWakeUp, Ok(())
send_event_signal(s) ==
    /\ fatal = "none"
    /\ pc[s] = "signal"
    /\ source' = [source EXCEPT ![s] = "signalled"]
    /\ pc' = [pc EXCEPT ![s] = "idle"]
    /\ result' = "Ok"
    /\ UNCHANGED <<app_vars, now, accepted, made_key, delivered,
                   times_delivered, last, stream, fatal, debug_assertions, timers, capability_vars,
                   handler_vars, facade_vars, sent_by, shared, shared_config,
                   closure_calls, receiver, run_loop, launched, ordered,
                   user_delivered>>

\* ------------------------------------------------------------ the run loop
\* the order in which the main run loop, run by UIApplicationMain in the
\* default mode, produces its notifications and callouts
InOrder(n) ==
    IF n = "Entry" THEN run_loop \in {"called", "exited"}
    ELSE IF n = "AfterWaiting" THEN run_loop = "waiting"
    ELSE IF n = "didFinishLaunching" THEN run_loop = "running" /\ ~launched
    ELSE IF n \in {"BeforeWaiting", "Exit", "perform"} THEN run_loop = "running"
    ELSE run_loop = "running" /\ launched

\* where a notification leaves the run loop
After(n) ==
    IF n \in {"Entry", "AfterWaiting"} THEN "running"
    ELSE IF n = "BeforeWaiting" THEN "waiting"
    ELSE IF n = "Exit" THEN "exited"
    ELSE run_loop

\* the callouts that are let in outside that order: a perform callout or a
\* window or application callback that reaches the handler before launch or
\* while the loop is idle is the breach its checks are for
OutOfOrder == {"perform", "event"}

Notified(n) ==
    /\ InOrder(n) \/ n \in OutOfOrder
    /\ ordered' = (ordered /\ InOrder(n))
    /\ run_loop' = After(n)

\* setup_control_flow_observers, control_flow_begin_handler: the match on the
\* activity
begin_raw_event(activity) ==
    IF activity = "AfterWaiting" THEN RawWaitCancelled ELSE RawPoll

\* setup_control_flow_observers, control_flow_begin_handler
control_flow_begin_handler(activity) ==
    /\ fatal = "none"
    /\ shared_application
    /\ activity \in {"Entry", "AfterWaiting"}
    /\ Notified(activity)
    /\ process_erased_event("control_flow_begin_handler", 0,
                            begin_raw_event(activity))
    /\ UNCHANGED <<app_vars, now, accepted, debug_assertions, timers, capability_vars, facade_vars,
                   proxy_vars, shared_vars, launched>>

\* setup_control_flow_observers, control_flow_end_handler: the match on the
\* activity
end_raw_event(activity) ==
    IF activity = "BeforeWaiting" THEN RawEventsCleared ELSE RawExit

\* setup_control_flow_observers, control_flow_end_handler
control_flow_end_handler(activity) ==
    /\ fatal = "none"
    /\ shared_application
    /\ activity \in {"BeforeWaiting", "Exit"}
    /\ Notified(activity)
    /\ process_erased_event("control_flow_end_handler", 0,
                            end_raw_event(activity))
    /\ UNCHANGED <<app_vars, now, accepted, debug_assertions, timers, capability_vars, facade_vars,
                   proxy_vars, shared_vars, launched>>

\* view::create_delegate_class, did_finish_launching:
\* event_loop::did_finish_launching, then process_erased_event(RawEvent::Init)
application_did_finish_launching ==
    /\ fatal = "none"
    /\ shared_application
    /\ ~launched
    /\ launched' = TRUE
    /\ Notified("didFinishLaunching")
    /\ process_erased_event("application_did_finish_launching", 0, RawInit)
    /\ UNCHANGED <<app_vars, now, accepted, debug_assertions, timers, capability_vars, facade_vars,
                   proxy_vars, shared_vars>>

\* mutant: process_erased_event reaches the handler through a checked cell, so
\* a second entry while the first is alive panics
EVENT_HANDLER_deref_checked(entered) == borrow_mut(entered)

\* event_loop::process_erased_event, &mut *EVENT_HANDLER.expect(..): a raw
\* pointer is dereferenced, nothing records that the handler is in use
EVENT_HANDLER_deref(entered) == "none"

\* view::create_delegate_class, did_become_active and the other callbacks that
\* hand a window or application event to process_erased_event; reenters: the
\* callback, while it handles the event, makes UIKit call back synchronously
\* (view::become_key_window under makeKeyAndVisible), which enters
\* process_erased_event again with a second event
did_become_active(reenters) ==
    /\ fatal = "none"
    /\ shared_application
    /\ accepted < MaxLoopEvents
    /\ Notified("event")
    /\ IF ~reenters
       THEN /\ accepted' = accepted + 1
            /\ process_erased_event("did_become_active", accepted + 1,
                                    RawEvent(NonUserEvent(accepted + 1)))
            /\ UNCHANGED nested
       ELSE /\ accepted + 2 \in EventIds
            /\ accepted' = accepted + 2
            /\ EVENT_HANDLER = "Some"
            /\ \E cf \in ControlFlow, cf2 \in ControlFlow :
                   LET outer == EventLoopHandler_handle_nonuser_event(
                                    RawEvent(NonUserEvent(accepted + 1)),
                                    this_handler, receiver, cf)
                       check == EVENT_HANDLER_deref(TRUE)
                       inner == EventLoopHandler_handle_nonuser_event(
                                    RawEvent(NonUserEvent(accepted + 2)),
                                    outer.h, outer.queue, cf2)
                   IN \* the callback is running with the first event
                      /\ outer.diag = "none" /\ outer.evs # <<>>
                      /\ IF check # "none"
                         THEN /\ Apply("did_become_active", accepted + 1,
                                       [outer EXCEPT !.diag = check])
                              /\ UNCHANGED nested
                         ELSE /\ Apply("did_become_active", accepted + 1,
                                       [inner EXCEPT
                                           !.evs = outer.evs \o inner.evs])
                              /\ nested' = IF inner.evs # <<>>
                                           THEN nested + 1 ELSE nested
    /\ UNCHANGED <<phase, queued_windows, queued_events, event_handler,
                   active_control_flow, start, control_flow, waker, rc, owned,
                   user_queue, handler_drops, sent, now, debug_assertions, timers, capability_vars,
                   facade_vars, proxy_vars, shared_vars, launched>>

\* EventLoopProxy::new, event_loop_proxy_handler: the perform callback of a
\* signalled source
event_loop_proxy_handler(s) ==
    /\ fatal = "none"
    /\ shared_application
    /\ source[s] = "signalled"
    /\ source' = [source EXCEPT ![s] = "idle"]
    /\ Notified("perform")
    /\ \/ /\ EVENT_HANDLER = "None"
          /\ Outcome("event_loop_proxy_handler", s, <<>>, <<>>,
                     "attempt to process an event without a running EventLoop")
          /\ UNCHANGED <<handler_vars, receiver, user_delivered>>
       \/ /\ EVENT_HANDLER = "Some"
          /\ LET r == EventLoopHandler_handle_user_events(this_handler, receiver)
             IN \E cf \in ControlFlow :
                    Apply("event_loop_proxy_handler", s,
                          [r EXCEPT !.h.control_flow =
                               callback_sets(r.evs, loop_control_flow, cf)])
    /\ UNCHANGED <<app_vars, now, accepted, debug_assertions, timers, capability_vars, facade_vars,
                   pc, sent_by, shared_vars, launched>>

\* Drop for EventLoopWaker: the timer is invalidated
waker_drop == FireDate("Invalidated", 0)

\* mutant: the handler stays registered while LoopDestroyed is handled and
\* after it
unregistered_at_loop_destroyed_kept(registered) == registered

\* process_erased_event, EVENT_HANDLER = None before LoopDestroyed is handled
unregistered_at_loop_destroyed(registered) == "None"

\* view::create_delegate_class, will_terminate: one
\* process_erased_event(WindowEvent::Destroyed) for a window of the loop
destroy_window(w, acc, cf) ==
    LET r == EventLoopHandler_handle_nonuser_event(
                 RawEvent(WindowDestroyed(w)), acc.h, acc.queue, cf)
    IN Handled(r.h, acc.evs \o r.evs, r.queue, r.diag)

\* view::create_delegate_class, will_terminate: the loop over [app windows];
\* a panic ends it
RECURSIVE destroy_windows(_, _, _)
destroy_windows(ws, acc, cfs) ==
    IF ws = <<>> \/ acc.diag # "none" THEN acc
    ELSE destroy_windows(Tail(ws), destroy_window(Head(ws), acc, Head(cfs)),
                         Tail(cfs))

\* view::create_delegate_class, will_terminate: a Destroyed event for each of
\* the application's windows, then process_erased_event(Event::LoopDestroyed),
\* which unregisters the handler, hands it the event and drops it in place,
\* the channel's receiver with it
will_terminate(windows) ==
    /\ fatal = "none"
    /\ shared_application
    /\ Notified("terminate")
    /\ \/ /\ EVENT_HANDLER = "None"
          /\ Outcome("will_terminate", windows, <<>>, <<>>,
                     "attempt to process an event without a running EventLoop")
          /\ UNCHANGED <<handler_vars, receiver, user_delivered, facade_vars>>
       \/ /\ EVENT_HANDLER = "Some"
          /\ \E cfs \in [1..windows -> ControlFlow], cf \in ControlFlow :
             \E d \in {destroy_windows([w \in 1..windows |-> w],
                                       Handled(this_handler, <<>>, receiver,
                                               "none"), cfs)} :
                 IF d.diag # "none"
                 THEN /\ Apply("will_terminate", windows, d)
                      /\ UNCHANGED <<EVENT_HANDLER, receiver_alive>>
                 ELSE \E r \in {EventLoopHandler_handle_nonuser_event(
                                    RawEvent(LoopDestroyed), d.h, d.queue,
                                    cf)} :
                      \E dropped \in {r.diag = "none"} :
                          /\ EVENT_HANDLER' =
                                 unregistered_at_loop_destroyed(EVENT_HANDLER)
                          /\ StoreHandler(IF dropped
                                          THEN [r.h EXCEPT !.waker = waker_drop]
                                          ELSE r.h)
                          /\ receiver' = IF dropped THEN <<>> ELSE r.queue
                          /\ receiver_alive' = ~dropped
                          /\ user_delivered' =
                                 user_delivered \o UserIdsOf(d.evs \o r.evs)
                          /\ Outcome("will_terminate", windows,
                                     d.evs \o r.evs, <<>>, r.diag)
          /\ UNCHANGED <<SINGLETON_INIT, event_loops, event_loop_held,
                         shared_application>>
    /\ UNCHANGED <<app_vars, now, accepted, debug_assertions, timers, capability_vars,
                   proxy_vars, shared_vars, launched>>

\* ------------------------------------------------------------ Shared
\* what Shared::configure and Shared::run leave: the variant, the
\* configuration held, the value returned and the diagnostic
SharedResult(variant, config, returned, diag) ==
    [shared |-> variant, config |-> config, returned |-> returned,
     diag |-> diag]

\* mutant: a later configuration replaces the stored one
Shared_configure_replaces(variant, held, config) ==
    IF variant \in {"UnconfiguredWindow", "ConfiguredWindow"}
    THEN SharedResult("ConfiguredWindow", config, "Ok", "none")
    ELSE SharedResult(variant, held, "Err", "none")

\* Shared::configure
Shared_configure(variant, held, config) ==
    IF variant = "UnconfiguredWindow"
    THEN SharedResult("ConfiguredWindow", config, "Ok", "none")
    ELSE SharedResult(variant, held, "Err", "none")

\* mutant: a Shared that is already Running runs its closure again
Shared_run_again(variant, held) ==
    IF variant = "UnconfiguredWindow"
        THEN SharedResult(variant, held, "none",
                 "iOS requires a configured Window to begin running")
    ELSE SharedResult("Running", held, "called", "none")

\* Shared::run
Shared_run(variant, held) ==
    IF variant = "UnconfiguredWindow"
        THEN SharedResult(variant, held, "none",
                 "iOS requires a configured Window to begin running")
    ELSE IF variant = "ConfiguredWindow"
        THEN SharedResult("Running", held, "called", "none")
    ELSE SharedResult(variant, held, "none",
             "attempt to run EventLoop more than once on iOS")

\* Window::new, which borrows the EventLoop: the attributes are handed to
\* Shared::configure, whose error is returned to the caller
Window_new(config) ==
    /\ fatal = "none"
    /\ event_loop_held
    /\ LET r == Shared_configure(shared, shared_config, config)
       IN /\ shared' = r.shared
          /\ shared_config' = r.config
          /\ result' = r.returned
          /\ Outcome("Window_new", config, <<>>, <<>>, r.diag)
    /\ UNCHANGED <<app_vars, now, accepted, debug_assertions, timers, capability_vars, handler_vars,
                   facade_vars, proxy_vars, closure_calls, receiver, run_loop,
                   launched, ordered, user_delivered>>

\* a caller of Shared::run starts the loop with the configured window
start_running ==
    /\ fatal = "none"
    /\ LET r == Shared_run(shared, shared_config)
       IN /\ shared' = r.shared
          /\ shared_config' = r.config
          /\ result' = r.returned
          /\ closure_calls' = IF r.returned = "called"
                              THEN closure_calls + 1 ELSE closure_calls
          /\ Outcome("Shared_run", 0, <<>>, <<>>, r.diag)
    /\ UNCHANGED <<app_vars, now, accepted, debug_assertions, timers, capability_vars, handler_vars,
                   facade_vars, proxy_vars, receiver, run_loop, launched,
                   ordered, user_delivered>>

\* mutant: a window that is only configured counts as running
Shared_as_running_configured(variant) ==
    IF variant # "UnconfiguredWindow" THEN "Some" ELSE "None"

\* Shared::as_running
Shared_as_running(variant) ==
    IF variant = "Running" THEN "Some" ELSE "None"

\* a getter of Window or of the event loop asks Shared::as_running
as_running ==
    /\ fatal = "none"
    /\ result' = Shared_as_running(shared)
    /\ Outcome("as_running", 0, <<>>, <<>>, "none")
    /\ UNCHANGED <<app_vars, now, accepted, debug_assertions, timers, capability_vars,
                   handler_vars, facade_vars, proxy_vars, shared,
                   shared_config, closure_calls, receiver, run_loop,
                   launched, ordered, user_delivered>>

\* the build is made with or without debug assertions
LoopInit ==
    /\ AppStateInit
    /\ debug_assertions \in BOOLEAN
    /\ EventLoopInit

LoopNext ==
    \* the one EventLoop of the process is constructed on the main thread
    \/ ~SINGLETON_INIT /\ EventLoop_new(TRUE)
    \/ EventLoop_run
    \/ \E s \in Senders : EventLoopProxy_new(s)
    \/ \E s \in Senders : EventLoopProxy_drop(s)
    \/ \E s \in Senders : send_event_send(s)
    \/ \E s \in Senders : send_event_signal(s)
    \/ \E s \in Senders : event_loop_proxy_handler(s)
    \/ \E activity \in {"Entry", "AfterWaiting"} :
           control_flow_begin_handler(activity)
    \/ \E activity \in {"BeforeWaiting", "Exit"} :
           control_flow_end_handler(activity)
    \/ application_did_finish_launching
    \* the proxies are exercised with a callback that does not re-enter and
    \* an application that has no window left when it terminates
    \/ did_become_active(FALSE)
    \/ will_terminate(0)

LoopSpec == LoopInit /\ [][LoopNext]_vars

\* the callbacks of the application delegate, of the windows and of the
\* run-loop observers, without proxies: the callback may re-enter, and the
\* application has windows when it terminates
DelegateNext ==
    \/ ~SINGLETON_INIT /\ EventLoop_new(TRUE)
    \/ EventLoop_run
    \/ \E activity \in {"Entry", "AfterWaiting"} :
           control_flow_begin_handler(activity)
    \/ \E activity \in {"BeforeWaiting", "Exit"} :
           control_flow_end_handler(activity)
    \/ application_did_finish_launching
    \/ \E reenters \in BOOLEAN : did_become_active(reenters)
    \/ \E windows \in 0..MaxWindows : will_terminate(windows)

DelegateSpec == LoopInit /\ [][DelegateNext]_vars

\* the operations that start the loop and register the window
FacadeNext ==
    \/ \E main_thread \in BOOLEAN : EventLoop_new(main_thread)
    \/ EventLoop_run
    \/ \E s \in Senders : EventLoopProxy_new(s)
    \/ \E s \in Senders : EventLoopProxy_drop(s)
    \/ \E config \in Configs : Window_new(config)
    \/ start_running
    \/ as_running
    \/ \E main_thread \in BOOLEAN :
           AppState_will_launch(main_thread, event_handler + 1)

FacadeSpec == LoopInit /\ [][FacadeNext]_vars

\* ------------------------------------------------------------ the wakers
\* the two EventLoopWaker values of the process: the one AppState holds and the
\* one EventLoopWindowTarget holds
Wakers == {"AppState", "EventLoopWindowTarget"}

\* the deadlines start_at is called with
Instants == 0..MaxInstant

\* a method of one of the wakers has run: the timer of that waker has the fire
\* date date, nothing else is touched
EventLoopWaker_call(w, name, arg, date) ==
    /\ fatal = "none"
    /\ w = "EventLoopWindowTarget" => event_loops > 0
    /\ IF w = "AppState"
       THEN waker' = date /\ UNCHANGED loop_waker
       ELSE loop_waker' = date /\ UNCHANGED waker
    /\ Outcome(name, arg, <<>>, <<>>, "none")
    /\ UNCHANGED <<phase, queued_windows, queued_events, event_handler,
                   active_control_flow, start, control_flow, rc, owned,
                   user_queue, handler_drops, nested, sent, now, accepted,
                   debug_assertions, timers, capability_vars, loop_state, loop_active,
                   loop_control_flow, loop_start, facade_vars, proxy_vars,
                   shared_vars, receiver, run_loop, launched, ordered,
                   user_delivered>>

\* EventLoopWaker::stop
EventLoopWaker_stop(w) == EventLoopWaker_call(w, "stop", 0, waker_stop)

\* EventLoopWaker::start
EventLoopWaker_start(w) == EventLoopWaker_call(w, "start", 0, waker_start)

\* EventLoopWaker::start_at
EventLoopWaker_start_at(w, instant) ==
    EventLoopWaker_call(w, "start_at", instant, waker_start_at(instant))

\* the wakers under every sequence of calls, while the clock advances
WakerNext ==
    \/ Tick
    \/ ~SINGLETON_INIT /\ EventLoop_new(TRUE)
    \/ \E w \in Wakers : EventLoopWaker_stop(w)
    \/ \E w \in Wakers : EventLoopWaker_start(w)
    \/ \E w \in Wakers, instant \in Instants :
           EventLoopWaker_start_at(w, instant)

WakerSpec == Init /\ [][WakerNext]_vars

\* ------------------------------------------------------------ capabilities
\* the major versions the operating system may report
OSMajors == 0..MaxMajor

\* mutant: the state is built anew by every call
guard_is_none_always(caps) == TRUE

\* AppState::get_mut, guard.is_none()
guard_is_none(caps) == caps = <<>>

\* AppState::get_mut: the first call runs init_guard, which creates the waker,
\* reads the version and derives the capabilities; a later call finds the
\* state
AppState_get_mut ==
    /\ fatal = "none"
    /\ IF guard_is_none(capabilities)
       THEN /\ timers' = timers + 1
            /\ capabilities' =
                   IF Capabilities_from_assert(os_major) = "none"
                   THEN Capabilities_from(os_major) ELSE capabilities
            /\ Outcome("get_mut", 0, <<>>, <<>>,
                       Capabilities_from_assert(os_major))
       ELSE /\ UNCHANGED <<timers, capabilities>>
            /\ Outcome("get_mut", 0, <<>>, <<>>, "none")
    /\ UNCHANGED <<app_vars, now, accepted, debug_assertions, os_major,
                   handler_vars, facade_vars, proxy_vars, shared_vars,
                   receiver, run_loop, launched, ordered, user_delivered>>

\* the process before the first AppState::get_mut
CapabilitiesInit ==
    /\ AppStateFields
    /\ timers = 0
    /\ os_major \in OSMajors
    /\ capabilities = <<>>
    /\ debug_assertions = TRUE
    /\ EventLoopInit

\* the state is created by the first get_mut; the lifecycle runs on it
CapabilitiesNext ==
    \/ AppState_get_mut
    \/ capabilities # <<>> /\ Tick
    \/ capabilities # <<>> /\ \E w \in Windows : create_window(w)
    \/ capabilities # <<>> /\ \E w \in Windows : set_key_window(w)
    \/ capabilities # <<>> /\ will_launch(event_handler + 1)
    \/ capabilities # <<>> /\ did_finish_launching
    \/ capabilities # <<>> /\ handle_events_cleared
    \/ capabilities # <<>> /\ handle_wakeup_transition
    \/ capabilities # <<>> /\ terminated

CapabilitiesSpec == CapabilitiesInit /\ [][CapabilitiesNext]_vars

\* ------------------------------------------------------------ specification
Next ==
    \/ Tick
    \/ \E w \in Windows : create_window(w)
    \/ \E w \in Windows : release_window(w)
    \/ send_event
    \/ \E w \in Windows : set_key_window(w)
    \* every EventLoop::run boxes a new callback, distinct from the one installed
    \/ will_launch(event_handler + 1)
    \/ did_finish_launching
    \/ handle_wakeup_transition
    \/ \E reenters \in BOOLEAN : handle_nonuser_event(reenters)
    \/ handle_user_events
    \/ handle_events_cleared
    \/ terminated

Spec == Init /\ [][Next]_vars

\* ------------------------------------------------------------ properties
AllowedPhaseChanges ==
    {<<"NotLaunched", "Launching">>, <<"Launching", "ProcessingEvents">>,
     <<"ProcessingEvents", "Waiting">>, <<"ProcessingEvents", "PollFinished">>,
     <<"Waiting", "ProcessingEvents">>, <<"PollFinished", "ProcessingEvents">>,
     <<"ProcessingEvents", "Terminated">>}

\* C1 as stated: every phase change, whatever operation makes it, is one of
\* the seven listed ones, and a Terminated phase never changes again.
C1_EveryPhaseChangeListed ==
    [][/\ phase' # phase => <<phase, phase'>> \in AllowedPhaseChanges
       /\ phase = "Terminated" => phase' = "Terminated"]_vars

\* C1 amended: every phase change made by an operation that completes without
\* a fatal error is one of the seven listed ones; the only other phase change
\* is the one terminated() makes when it is called outside ProcessingEvents (it
\* has replaced the phase by Terminated when it raises its fatal error); a
\* Terminated phase never changes again.
C1_PhaseChangesOfCompletedOperations ==
    [][/\ (phase' # phase /\ fatal' = "none")
              => <<phase, phase'>> \in AllowedPhaseChanges
       /\ (phase' # phase /\ fatal' # "none")
              => (last'.op = "terminated" /\ phase' = "Terminated"
                  /\ phase # "ProcessingEvents")
       /\ phase = "Terminated" => phase' = "Terminated"]_vars

\* C1 witness: terminated() completed without a fatal error, so the phase has
\* gone NotLaunched -> Launching -> ProcessingEvents -> Terminated.
C1_Witness ==
    /\ phase = "Terminated"
    /\ fatal = "none"
    /\ last.op = "terminated"
    /\ delivered = <<LoopDestroyed>>

\* C2: from will_launch until terminated the callback supplied to will_launch
\* is held by the current phase (Launching, ProcessingEvents, Waiting or
\* PollFinished), it has never been dropped while a phase holds it (so no
\* second owner ever existed), it is dropped exactly once by terminated, and
\* no invocation of it ever began inside another one.
C2_CallbackOwnedByOnePhase ==
    /\ nested = 0
    /\ phase = "NotLaunched" => (event_handler = NoHandler /\ handler_drops = 0)
    /\ phase \in {"Launching", "ProcessingEvents", "Waiting", "PollFinished"}
           => (event_handler = 1 /\ handler_drops = 0)
    /\ phase = "Terminated" => (event_handler = NoHandler /\ handler_drops <= 1)

\* C2 witness: the Exit branch of handle_events_cleared was taken and the
\* phase still holds the callback.
C2_Witness ==
    /\ last.op = "handle_events_cleared"
    /\ fatal = "unreachable"
    /\ phase = "ProcessingEvents"
    /\ event_handler = 1

\* a step of handle_events_cleared taken while processing events
ClearedStep == phase = "ProcessingEvents" /\ handle_events_cleared

\* C3 as stated: when the callback has left ControlFlow::Exit in effect, the
\* next handle_events_cleared completes without a fatal error, ends in Waiting
\* or PollFinished with the callback installed, and the stored policy is the
\* one the iteration began with.
C3_ExitDowngraded ==
    [][(ClearedStep /\ control_flow = Exit)
           => /\ fatal' = "none"
              /\ phase' \in {"Waiting", "PollFinished"}
              /\ event_handler' = event_handler
              /\ control_flow' = active_control_flow]_vars

\* C4 as stated: handle_events_cleared compares the policies after the
\* callback has handled EventsCleared, so that once it has returned the phase
\* agrees with the policy the callback left: Poll with PollFinished, Wait and
\* WaitUntil with Waiting.
C4_ClearedBeforeCompared ==
    (last.op = "handle_events_cleared" /\ fatal = "none"
     /\ phase \in {"Waiting", "PollFinished"})
        => /\ control_flow = Poll => phase = "PollFinished"
           /\ control_flow.k \in {"Wait", "WaitUntil"} => phase = "Waiting"

\* the fire date that makes the timer fire at Instant t
FiresAt(t) == FireDate("At", t + ClockOffset)

SamePolicy(old, new) ==
    \/ old = Poll /\ new = Poll
    \/ old = Wait /\ new = Wait
    \/ old.k = "WaitUntil" /\ new.k = "WaitUntil" /\ old.t = new.t

\* C5 as stated: with old the policy of the iteration and new the policy
\* handle_events_cleared compares it with, old # new: new = Wait leaves the
\* waker stopped, new = WaitUntil(t) leaves it scheduled to fire at t, new =
\* Poll leaves it firing immediately; old = new leaves the waker as it was.
C5_WakerFollowsPolicy ==
    [][(ClearedStep /\ control_flow # Exit)
           => IF SamePolicy(active_control_flow, control_flow)
              THEN waker' = waker
              ELSE /\ control_flow = Wait => waker' = F64Max
                   /\ control_flow.k = "WaitUntil"
                          => waker' = FiresAt(control_flow.t)
                   /\ control_flow = Poll => waker' = F64Min]_vars

\* C5 amended: as C5, except that new = WaitUntil(t) leaves the waker scheduled
\* to fire at t only when t is later than the current time, and leaves it
\* firing immediately when t has already been reached.
C5_WakerFollowsPolicyOrFiresNow ==
    [][(ClearedStep /\ control_flow # Exit)
           => IF SamePolicy(active_control_flow, control_flow)
              THEN waker' = waker
              ELSE /\ control_flow = Wait => waker' = F64Max
                   /\ control_flow.k = "WaitUntil"
                          => waker' = IF control_flow.t > now
                                      THEN FiresAt(control_flow.t)
                                      ELSE F64Min
                   /\ control_flow = Poll => waker' = F64Min]_vars

\* C5 witness: handle_events_cleared has programmed the waker for a deadline
\* that lies ahead.
C5_Witness ==
    /\ last.op = "handle_events_cleared"
    /\ fatal = "none"
    /\ phase = "Waiting"
    /\ waker.k = "At"

\* C6: handle_wakeup in phase Waiting with policy WaitUntil(t) raises no error,
\* moves to ProcessingEvents with active policy WaitUntil(t) and hands the
\* callback exactly one event: NewEvents(ResumeTimeReached{start, t}) if
\* now >= t, NewEvents(WaitCancelled{start, Some(t)}) if now < t.
C6_WaitUntilResolvedAtWakeup ==
    [][(phase = "Waiting" /\ control_flow.k = "WaitUntil"
        /\ handle_wakeup_transition)
           => /\ fatal' = "none"
              /\ phase' = "ProcessingEvents"
              /\ active_control_flow' = control_flow
              /\ delivered' =
                     <<IF now >= control_flow.t
                       THEN NewEventsResumeTimeReached(start, control_flow.t)
                       ELSE NewEventsWaitCancelled(start, control_flow.t)>>]_vars

\* C6 witness: a wakeup before the deadline was answered with WaitCancelled
\* carrying the deadline.
C6_Witness ==
    /\ last.op = "handle_wakeup"
    /\ fatal = "none"
    /\ phase = "ProcessingEvents"
    /\ active_control_flow.k = "WaitUntil"
    /\ Len(delivered) = 1
    /\ delivered[1].cause = "WaitCancelled"
    /\ delivered[1].resume = active_control_flow.t

\* C7: a window's retain count is the reference of its creator (if it still
\* holds one) plus one retain for every place it takes in the queued windows:
\* set_key_window takes exactly one retain at enqueue, did_finish_launching
\* and the drop of a phase value give exactly one back for every queued place,
\* whether or not the dance runs, will_launch gives none back, and no window
\* is released below zero; after launch nothing is queued any more.
C7_QueuedWindowRetainsBalanced ==
    /\ \A w \in Windows :
           /\ rc[w] >= 0
           /\ rc[w] = (IF w \in owned THEN 1 ELSE 0)
                      + Occurrences(w, queued_windows)
    /\ phase \notin {"NotLaunched", "Launching"} => queued_windows = <<>>

\* C7 witness: did_finish_launching ran the dance for a queued window whose
\* creator still holds it and released the retain taken at enqueue.
C7_Witness ==
    /\ last.op = "did_finish_launching"
    /\ fatal = "none"
    /\ made_key # <<>>
    /\ rc[made_key[1]] = 1
    /\ made_key[1] \in owned

\* C8: did_finish_launching called in phase Launching moves to
\* ProcessingEvents with active policy Poll and hands the callback
\* NewEvents(Init), then every queued non-user event once in queue order, then
\* every user event in the channel, which it leaves empty, and after them only
\* an event its own window dance raised; called in any other phase it is fatal
\* and the callback receives nothing.
C8_LaunchDeliversInitThenQueued ==
    [][/\ (phase = "Launching" /\ did_finish_launching)
              => /\ fatal' = "none"
                 /\ phase' = "ProcessingEvents"
                 /\ active_control_flow' = Poll
                 /\ delivered' =
                        <<NewEventsInit>>
                        \o [i \in 1..Len(queued_events) |->
                               NonUserEvent(queued_events[i])]
                        \o [i \in 1..Len(user_queue) |->
                               UserEvent(user_queue[i])]
                        \o (IF accepted' = accepted THEN <<>>
                            ELSE <<NonUserEvent(accepted')>>)
                 /\ user_queue' = <<>>
       /\ (phase # "Launching" /\ did_finish_launching)
              => /\ fatal' # "none"
                 /\ delivered' = <<>>
                 /\ phase' = phase]_vars

\* C8 witness: the launch delivered Init, two queued events and a user event.
C8_Witness ==
    /\ last.op = "did_finish_launching"
    /\ fatal = "none"
    /\ phase = "ProcessingEvents"
    /\ Len(delivered) >= 4
    /\ delivered[2].ev = "Event"
    /\ delivered[3].ev = "Event"
    /\ delivered[Len(delivered)].ev = "UserEvent"

\* C9: handle_nonuser_event(e) before launch appends e to the queued events
\* and invokes no callback; in ProcessingEvents it hands e to the callback at
\* once; in Waiting, PollFinished or Terminated it is fatal and invokes no
\* callback. Every event it took is either still queued (once, undelivered) or
\* was delivered exactly once, never both and never twice.
C9_NonUserEventBufferedOrDelivered ==
    /\ \A e \in EventIds :
           /\ times_delivered[e] + Occurrences(e, queued_events) <= 1
           /\ (e <= accepted /\ fatal = "none")
                  => times_delivered[e] + Occurrences(e, queued_events) = 1
           /\ e > accepted
                  => times_delivered[e] + Occurrences(e, queued_events) = 0
    /\ last.op = "handle_nonuser_event"
           => /\ phase \in {"NotLaunched", "Launching"}
                     => /\ fatal = "none"
                        /\ delivered = <<>>
                        /\ queued_events # <<>>
                        /\ queued_events[Len(queued_events)] = last.arg
              /\ phase = "ProcessingEvents"
                     => delivered = <<NonUserEvent(last.arg)>>
              /\ phase \in {"Waiting", "PollFinished", "Terminated"}
                     => /\ fatal # "none"
                        /\ delivered = <<>>
                        /\ times_delivered[last.arg] = 0

\* C9 witness: an event buffered before launch has been delivered once by the
\* launch, and a later event was delivered at once.
C9_Witness ==
    /\ last.op = "handle_nonuser_event"
    /\ fatal = "none"
    /\ phase = "ProcessingEvents"
    /\ last.arg = 2
    /\ times_delivered[1] = 1
    /\ times_delivered[2] = 1

\* C10: will_launch(callback) called in phase NotLaunched produces phase
\* Launching holding that callback and the queued windows and events as they
\* were, in the same order, with no window retained or released; called in any
\* other phase it is fatal and leaves the phase, the queues, the retain counts
\* and the installed callback unchanged.
C10_WillLaunchMovesQueues ==
    [][/\ (phase = "NotLaunched" /\ will_launch(event_handler + 1))
              => /\ fatal' = "none"
                 /\ phase' = "Launching"
                 /\ event_handler' = last'.arg
                 /\ queued_windows' = queued_windows
                 /\ queued_events' = queued_events
                 /\ rc' = rc
       /\ (phase # "NotLaunched" /\ will_launch(event_handler + 1))
              => /\ fatal' # "none"
                 /\ last'.arg # event_handler
                 /\ UNCHANGED <<phase, queued_windows, queued_events,
                                event_handler, rc, handler_drops>>]_vars

\* C10 witness: will_launch has moved a queued window and two queued events
\* into Launching.
C10_Witness ==
    /\ last.op = "will_launch"
    /\ fatal = "none"
    /\ phase = "Launching"
    /\ event_handler = last.arg
    /\ Len(queued_windows) >= 1
    /\ Len(queued_events) >= 2

\* C11: set_key_window(w) in NotLaunched appends w to the queued windows and
\* retains it; in ProcessingEvents it sends w makeKeyAndVisible at once and
\* queues and retains nothing; in Terminated it fails with the
\* post-termination diagnostic without queuing, retaining or showing w; in
\* Launching, Waiting or PollFinished it fails as unreachable; in no case does
\* it change the phase.
C11_SetKeyWindowByPhase ==
    [][\A w \in Windows : set_key_window(w) =>
          /\ phase' = phase
          /\ phase = "NotLaunched"
                 => /\ fatal' = "none"
                    /\ queued_windows' = Append(queued_windows, w)
                    /\ rc' = [rc EXCEPT ![w] = rc[w] + 1]
                    /\ made_key' = <<>>
          /\ phase = "ProcessingEvents"
                 => /\ fatal' = "none"
                    /\ made_key' = <<w>>
                    /\ UNCHANGED <<queued_windows, rc>>
          /\ phase = "Terminated"
                 => /\ fatal' = "Attempt to create a Window after the app has terminated"
                    /\ made_key' = <<>>
                    /\ UNCHANGED <<queued_windows, rc>>
          /\ phase \in {"Launching", "Waiting", "PollFinished"}
                 => /\ fatal' = "unreachable"
                    /\ made_key' = <<>>
                    /\ UNCHANGED <<queued_windows, rc>>]_vars

\* C11 witness: set_key_window was refused after termination.
C11_Witness ==
    /\ last.op = "set_key_window"
    /\ phase = "Terminated"
    /\ fatal = "Attempt to create a Window after the app has terminated"
    /\ made_key = <<>>
    /\ queued_windows = <<>>

\* C12: handle_wakeup in NotLaunched or Launching changes nothing and invokes
\* no callback; in PollFinished with policy Poll it moves to
\* ProcessingEvents{Poll} and delivers NewEvents(Poll); in Waiting with policy
\* Wait it moves to ProcessingEvents{Wait} and delivers
\* NewEvents(WaitCancelled{start, requested_resume: None}); every wakeup that
\* completes after launch invokes the callback exactly once.
C12_WakeupResumesByPolicy ==
    [][handle_wakeup_transition =>
          /\ phase \in {"NotLaunched", "Launching"}
                 => /\ fatal' = "none"
                    /\ delivered' = <<>>
                    /\ UNCHANGED <<phase, queued_windows, queued_events,
                                   event_handler, active_control_flow, start,
                                   control_flow, waker, rc, user_queue>>
          /\ (phase = "PollFinished" /\ control_flow = Poll)
                 => /\ fatal' = "none"
                    /\ phase' = "ProcessingEvents"
                    /\ active_control_flow' = Poll
                    /\ delivered' = <<NewEventsPoll>>
          /\ (phase = "Waiting" /\ control_flow = Wait)
                 => /\ fatal' = "none"
                    /\ phase' = "ProcessingEvents"
                    /\ active_control_flow' = Wait
                    /\ delivered' = <<NewEventsWaitCancelled(start, NoInstant)>>
          /\ (fatal' = "none" /\ phase \notin {"NotLaunched", "Launching"})
                 => Len(delivered') = 1
          /\ fatal' # "none" => delivered' = <<>>]_vars

\* C12 witness: a wakeup from Waiting under Wait was answered with
\* WaitCancelled carrying the start of the wait and no deadline.
C12_Witness ==
    /\ last.op = "handle_wakeup"
    /\ fatal = "none"
    /\ phase = "ProcessingEvents"
    /\ active_control_flow = Wait
    /\ delivered = <<NewEventsWaitCancelled(now, NoInstant)>>

\* a step of any lifecycle operation of AppState
LifecycleStep ==
    \/ \E w \in Windows : set_key_window(w)
    \/ will_launch(event_handler + 1)
    \/ did_finish_launching
    \/ handle_wakeup_transition
    \/ \E reenters \in BOOLEAN : handle_nonuser_event(reenters)
    \/ handle_user_events
    \/ handle_events_cleared
    \/ terminated

\* C13: terminated() called in ProcessingEvents hands the callback
\* LoopDestroyed exactly once and leaves the phase Terminated; called in any
\* other phase it is fatal and invokes no callback; once the phase is
\* Terminated no operation invokes the callback.
C13_LoopDestroyedIsLast ==
    [][/\ (phase = "ProcessingEvents" /\ terminated)
              => /\ fatal' = "none"
                 /\ delivered' = <<LoopDestroyed>>
                 /\ phase' = "Terminated"
       /\ (phase # "ProcessingEvents" /\ terminated)
              => /\ fatal' # "none"
                 /\ delivered' = <<>>
       /\ (phase = "Terminated" /\ LifecycleStep)
              => /\ delivered' = <<>>
                 /\ times_delivered' = times_delivered
                 /\ phase' = "Terminated"]_vars

\* C13 witness: after a termination that delivered LoopDestroyed, an event
\* arrived and was refused without reaching the callback.
C13_Witness ==
    /\ phase = "Terminated"
    /\ last.op = "handle_nonuser_event"
    /\ fatal # "none"
    /\ delivered = <<>>
    /\ handler_drops = 1

\* C14 as stated: once handle_events_cleared has returned, the stored policy
\* is not Exit, whatever the callback set during the events of the iteration,
\* EventsCleared included; so no wakeup finds the policy Exit.
C14_ExitNeverReachesWakeup ==
    (last.op = "handle_events_cleared" /\ fatal = "none"
     /\ phase \in {"Waiting", "PollFinished"})
        => control_flow # Exit

\* C15 as stated, for EventLoopHandler: handle_user_events, reached from a
\* perform callout, hands the callback every user event in the channel in
\* FIFO order and leaves the channel empty while the loop state is Running;
\* invokes no callback and leaves the channel and the handler unchanged while
\* it is Uninitialized; and is fatal, invoking no callback, while it is
\* NotRunning.
C15_UserEventsDeliveredOrFatal ==
    [][\A s \in Senders :
          (event_loop_proxy_handler(s) /\ EVENT_HANDLER = "Some") =>
              /\ loop_state = "Running"
                     => /\ fatal' = "none"
                        /\ delivered' = [i \in 1..Len(receiver) |->
                                             UserEvent(receiver[i])]
                        /\ receiver' = <<>>
              /\ loop_state = "Uninitialized"
                     => /\ fatal' = "none"
                        /\ delivered' = <<>>
                        /\ UNCHANGED <<receiver, handler_vars>>
              /\ loop_state = "NotRunning"
                     => /\ fatal' # "none"
                        /\ delivered' = <<>>]_vars

\* C16: a second attempt to start the loop never replaces the first: a
\* will_launch outside NotLaunched is fatal and leaves the phase and the
\* installed callback as they were; Shared::run on a Shared that is already
\* Running is fatal, leaves it Running with its configuration and does not
\* call the closure; EventLoop::run is only ever entered with no handler
\* installed and UIApplicationMain not yet called, because it consumes the one
\* EventLoop and a second EventLoop::new is fatal.
C16_SecondStartRejected ==
    [][/\ (phase # "NotLaunched" /\ will_launch(event_handler + 1))
              => /\ fatal' # "none"
                 /\ UNCHANGED <<phase, event_handler, handler_drops>>
       /\ (shared = "Running" /\ start_running)
              => /\ fatal' # "none"
                 /\ UNCHANGED <<shared, shared_config, closure_calls>>
       /\ EventLoop_run
              => /\ EVENT_HANDLER = "None"
                 /\ ~shared_application
                 /\ event_loops = 1
       /\ (SINGLETON_INIT /\ \E m \in BOOLEAN : EventLoop_new(m))
              => /\ fatal' # "none"
                 /\ UNCHANGED <<EVENT_HANDLER, event_loop_held, event_loops>>
       /\ closure_calls' <= 1]_vars

\* C16 witness: Shared::run was refused on a Shared that is Running, after
\* the loop had been started.
C16_Witness ==
    /\ last.op = "Shared_run"
    /\ fatal = "attempt to run EventLoop more than once on iOS"
    /\ shared = "Running"
    /\ closure_calls = 1
    /\ EVENT_HANDLER = "Some"

\* C17: EventLoop::new succeeds at most once: the first call on the main
\* thread sets the singleton flag and yields the one EventLoop with its
\* receiver and waker; every other call is fatal and constructs nothing; at
\* most one EventLoop ever exists.
C17_EventLoopIsSingleton ==
    [][/\ \A m \in BOOLEAN : EventLoop_new(m) =>
              IF m /\ ~SINGLETON_INIT
              THEN /\ fatal' = "none"
                   /\ SINGLETON_INIT'
                   /\ event_loops' = event_loops + 1
                   /\ receiver_alive'
              ELSE /\ fatal' # "none"
                   /\ UNCHANGED <<SINGLETON_INIT, event_loops,
                                  event_loop_held, receiver_alive, loop_waker>>
       /\ event_loops' <= 1
       /\ SINGLETON_INIT => SINGLETON_INIT']_vars

\* C17 witness: a second EventLoop::new on the main thread was refused.
C17_Witness ==
    /\ last.op = "EventLoop_new"
    /\ fatal = "Only one EventLoop is supported on iOS"
    /\ event_loops = 1
    /\ SINGLETON_INIT

\* C18: Shared::configure, reached from Window::new, succeeds only on an
\* unconfigured Shared, which then holds the configuration; on a configured or
\* running Shared it returns an error value without a fatal error and leaves
\* the variant and the stored configuration unchanged; a stored configuration
\* is never replaced.
C18_ConfigureOnlyOnce ==
    [][/\ \A config \in Configs : Window_new(config) =>
              /\ fatal' = "none"
              /\ IF shared = "UnconfiguredWindow"
                 THEN /\ result' = "Ok"
                      /\ shared' = "ConfiguredWindow"
                      /\ shared_config' = config
                 ELSE /\ result' = "Err"
                      /\ UNCHANGED <<shared, shared_config>>
       /\ shared # "UnconfiguredWindow" => shared_config' = shared_config]_vars

\* C18 witness: a second Window::new with other attributes got the error and
\* the first configuration is still the one stored.
C18_Witness ==
    /\ last.op = "Window_new"
    /\ fatal = "none"
    /\ result = "Err"
    /\ shared = "ConfiguredWindow"
    /\ shared_config # last.arg

\* the user events the callback has received are pairwise distinct
NoDuplicates(ids) ==
    \A i, j \in 1..Len(ids) : i # j => ids[i] # ids[j]

\* C19 as stated, in the form a finite run refutes: no user event is handed
\* to the callback twice, and whenever the launched loop is at rest in
\* run-loop order with the handler installed and no send_event in progress,
\* every event still in the channel has a signalled source waiting to be
\* performed, so that the next pass of the run loop drains it; this also
\* after the proxy that sent it was dropped.
C19_SentEventsGetDelivered ==
    /\ NoDuplicates(user_delivered)
    /\ (/\ ordered
        /\ fatal = "none"
        /\ EVENT_HANDLER = "Some"
        /\ loop_state # "Uninitialized"
        /\ \A s \in Senders : pc[s] = "idle"
        /\ receiver # <<>>)
           => \E s \in Senders : source[s] = "signalled"

WakeupCauses(cf) ==
    IF cf = Poll THEN {"Poll"}
    ELSE IF cf = Wait THEN {"WaitCancelled"}
    ELSE {"WaitCancelled", "ResumeTimeReached"}

\* C22 as stated, for the observers of event_loop.rs with the handler
\* installed and the notifications so far in run-loop order: an entry or
\* after-waiting notification is a no-op before launch and afterwards makes
\* the loop Running and hands the callback a NewEvents whose start cause
\* follows the policy; a before-waiting notification is a no-op before launch
\* and afterwards hands the callback EventsCleared and leaves the loop idle;
\* none of them ends in a fatal error.
C22_ObserversMapToWakeupAndCleared ==
    [][(ordered /\ EVENT_HANDLER = "Some") =>
          /\ \A activity \in {"Entry", "AfterWaiting"} :
                 control_flow_begin_handler(activity) =>
                     /\ fatal' = "none"
                     /\ IF loop_state = "Uninitialized"
                        THEN delivered' = <<>> /\ UNCHANGED handler_vars
                        ELSE /\ loop_state' = "Running"
                             /\ Len(delivered') = 1
                             /\ delivered'[1].ev = "NewEvents"
                             /\ delivered'[1].cause
                                    \in WakeupCauses(loop_control_flow)
          /\ control_flow_end_handler("BeforeWaiting") =>
                 /\ fatal' = "none"
                 /\ IF loop_state = "Uninitialized"
                    THEN delivered' = <<>> /\ UNCHANGED handler_vars
                    ELSE /\ loop_state' = "NotRunning"
                         /\ delivered' = <<EventsCleared>>]_vars

\* C23 as stated, for EventLoopHandler: a window or application event handed
\* to process_erased_event is handed to the callback or ends in a fatal
\* error, in every loop state; the handler has no buffer to replay from.
C23_NonUserEventNeverDiscarded ==
    [][(\E reenters \in BOOLEAN : did_become_active(reenters)) =>
          \/ fatal' # "none"
          \/ \E i \in 1..Len(delivered') :
                 delivered'[i] = NonUserEvent(accepted + 1)]_vars

\* C24 as stated: EventLoop::new and an operation reached through
\* AppState::get_mut, called from a thread other than the main thread, end in
\* a fatal error and leave the lifecycle state as it was.
C24_OffMainThreadRejected ==
    [][/\ EventLoop_new(FALSE)
              => fatal' # "none" /\ UNCHANGED <<facade_vars, app_vars>>
       /\ AppState_will_launch(FALSE, event_handler + 1)
              => fatal' # "none" /\ UNCHANGED <<facade_vars, app_vars>>]_vars

\* C25: the scenario, step by step, each step from the state the step before
\* it leaves. set_key_window(W1) before launch queues and retains W1;
\* will_launch moves to Launching with W1 still queued; did_finish_launching
\* moves to ProcessingEvents{Poll}, hands the callback NewEvents(Init) first,
\* makes W1 key once if it is still referenced elsewhere and releases the
\* retain; handle_events_cleared with the policy WaitUntil(t), t in the
\* future, moves to Waiting with the waker scheduled for t; the wakeup once t
\* is reached moves to ProcessingEvents{WaitUntil(t)} and hands the callback
\* NewEvents(ResumeTimeReached). No step ends in a fatal error.
C25_LaunchThenWaitUntilScenario ==
    [][\A w \in Windows : \A t \in Times :
          /\ (phase = "NotLaunched" /\ queued_windows = <<>>
                  /\ set_key_window(w))
                 => /\ fatal' = "none"
                    /\ phase' = "NotLaunched"
                    /\ queued_windows' = <<w>>
                    /\ rc'[w] = rc[w] + 1
          /\ (phase = "NotLaunched" /\ queued_windows = <<w>>
                  /\ will_launch(event_handler + 1))
                 => /\ fatal' = "none"
                    /\ phase' = "Launching"
                    /\ queued_windows' = <<w>>
                    /\ event_handler' = event_handler + 1
          /\ (phase = "Launching" /\ queued_windows = <<w>>
                  /\ did_finish_launching)
                 => /\ fatal' = "none"
                    /\ phase' = "ProcessingEvents"
                    /\ active_control_flow' = Poll
                    /\ delivered'[1] = NewEventsInit
                    /\ made_key' = IF rc[w] > 1 THEN <<w>> ELSE <<>>
                    /\ rc'[w] = rc[w] - 1
                    /\ queued_windows' = <<>>
          /\ (phase = "ProcessingEvents" /\ active_control_flow = Poll
                  /\ control_flow = WaitUntil(t) /\ t > now
                  /\ handle_events_cleared /\ control_flow' = control_flow)
                 => /\ fatal' = "none"
                    /\ phase' = "Waiting"
                    /\ waker' = FiresAt(t)
                    /\ start' = now
                    /\ delivered' = <<EventsCleared>>
          /\ (phase = "Waiting" /\ control_flow = WaitUntil(t) /\ now >= t
                  /\ handle_wakeup_transition)
                 => /\ fatal' = "none"
                    /\ phase' = "ProcessingEvents"
                    /\ active_control_flow' = WaitUntil(t)
                    /\ delivered' = <<NewEventsResumeTimeReached(start, t)>>]_vars

\* C25 witness: the end of the scenario with no other event on the way: W1 was
\* retained, made key and released, the loop waited from time 0 for the
\* deadline 1 and was resumed at it.
C25_Witness ==
    /\ last.op = "handle_wakeup"
    /\ fatal = "none"
    /\ phase = "ProcessingEvents"
    /\ active_control_flow = WaitUntil(1)
    /\ delivered = <<NewEventsResumeTimeReached(0, 1)>>
    /\ waker = FiresAt(1)
    /\ queued_windows = <<>>
    /\ rc[1] = 1
    /\ accepted = 0
    /\ sent = 0

\* C26 as stated: whenever an operation has left the machine at rest, phase
\* Waiting goes with the policy Wait or WaitUntil and phase PollFinished with
\* the policy Poll; and a wakeup that finds the machine in Waiting or
\* PollFinished, as the run loop orders it, does not end in the fatal
\* 'unexpectedly woke up' or 'unexpectedly started polling'.
C26_PhaseAgreesWithPolicy ==
    [][/\ (fatal' = "none" /\ phase' = "Waiting")
              => control_flow'.k \in {"Wait", "WaitUntil"}
       /\ (fatal' = "none" /\ phase' = "PollFinished")
              => control_flow' = Poll
       /\ (phase \in {"Waiting", "PollFinished"} /\ handle_wakeup_transition)
              => fatal' \notin {"EventHandler unexpectedly woke up",
                                "EventHandler unexpectedly started polling"}]_vars

\* C27 as stated: whenever the machine is at rest after launch with the phase
\* that goes with its policy, the waker goes with the policy too: PollFinished
\* with Poll has the waker firing immediately, Waiting with Wait has it
\* stopped, Waiting with WaitUntil(t) has it scheduled for t, or firing
\* immediately when t had been reached.
C27_WakerAgreesWithPolicy ==
    fatal = "none" =>
        /\ (phase = "PollFinished" /\ control_flow = Poll)
               => waker = F64Min
        /\ (phase = "Waiting" /\ control_flow = Wait)
               => waker = F64Max
        /\ (phase = "Waiting" /\ control_flow.k = "WaitUntil")
               => waker \in {FiresAt(control_flow.t), F64Min}

callback_phase(before, after) == after

\* C29 as stated: whenever an operation of AppState hands events to the
\* callback, EventsCleared and LoopDestroyed included, the phase is
\* ProcessingEvents while the callback runs.
C29_CallbackRunsInProcessingEvents ==
    [][delivered' # <<>> /\ last'.op # "none"
           => callback_phase(phase, phase') = "ProcessingEvents"]_vars

\* the places of the queue whose window is still referenced elsewhere when
\* the loop over the windows reaches them, every earlier place of the same
\* window having given its retain back
DancePlaces(ws, r) ==
    {i \in 1..Len(ws) :
        r[ws[i]] - Occurrences(ws[i], SubSeq(ws, 1, i - 1)) > 1}

C31_ReentryNeverNestsCallback ==
    nested = 0

\* C32 as stated, for EventLoopHandler: the start field is None whenever the
\* loop state is Running, the wake-up that made it Running having taken the
\* timestamp the preceding events-cleared stored.
C32_StartNoneWhileRunning ==
    loop_state = "Running" => loop_start = NoInstant

\* the fire date of waker w
FireDateOf(w) == IF w = "AppState" THEN waker ELSE loop_waker

\* C33: whatever was called before, stop leaves no fire scheduled, start
\* leaves an immediate fire, start_at(d) leaves a fire at d when d is later
\* than now and what start leaves otherwise; a call that finds the waker as
\* the same call would leave it changes nothing; every call reprograms the
\* timer the waker was created with: no timer is created, none is invalidated
\* and the other waker keeps its fire date.
C33_WakerFollowsLastCall ==
    [][\A w \in Wakers :
          LET other == CHOOSE v \in Wakers : v # w
              Reprogrammed(date) ==
                  /\ FireDateOf(w)' = date
                  /\ FireDateOf(w) = date => UNCHANGED <<waker, loop_waker>>
                  /\ FireDateOf(other)' = FireDateOf(other)
                  /\ timers' = timers
                  /\ FireDateOf(w)'.k # "Invalidated"
          IN /\ EventLoopWaker_stop(w) => Reprogrammed(F64Max)
             /\ EventLoopWaker_start(w) => Reprogrammed(F64Min)
             /\ \A d \in Instants :
                    EventLoopWaker_start_at(w, d) =>
                        Reprogrammed(IF d > now THEN FiresAt(d)
                                     ELSE F64Min)]_vars

\* C33 witness: after stop, start and start_at calls on both wakers, the last
\* call was a start_at with a deadline that had passed and left the immediate
\* fire, while the other waker holds the deadline it was given.
C33_Witness ==
    /\ last = Op("start_at", 1)
    /\ now = 1
    /\ waker = F64Min
    /\ loop_waker = FiresAt(2)
    /\ timers = 2

\* C34: in EventLoopHandler the user events sent before Init stay in the
\* channel, in send order, as long as the loop state is Uninitialized and the
\* handler lives; the step that handles Init hands the callback
\* NewEvents(Init) and then every one of them in that order, before any other
\* event, and leaves the channel empty.
C34_EarlyUserEventsFollowInit ==
    [][/\ (loop_state = "Uninitialized" /\ loop_state' = "Uninitialized"
            /\ receiver_alive /\ receiver_alive')
           => /\ Len(receiver') >= Len(receiver)
              /\ SubSeq(receiver', 1, Len(receiver)) = receiver
              /\ user_delivered' = user_delivered
       /\ (application_did_finish_launching /\ EVENT_HANDLER = "Some"
            /\ loop_state = "Uninitialized")
           => /\ fatal' = "none"
              /\ loop_state' = "Running"
              /\ delivered' = <<NewEventsInit>>
                     \o [i \in 1..Len(receiver) |-> UserEvent(receiver[i])]
              /\ user_delivered' = user_delivered \o receiver
              /\ receiver' = <<>>]_vars

\* C34 witness: Init was handled with two user events waiting in the channel
\* and the callback received NewEvents(Init) followed by both.
C34_Witness ==
    /\ last.op = "application_did_finish_launching"
    /\ fatal = "none"
    /\ Len(delivered) = 3
    /\ delivered[1] = NewEventsInit
    /\ delivered[2].ev = "UserEvent"
    /\ delivered[3].ev = "UserEvent"
    /\ receiver = <<>>

\* a callback of the operating system that ends in process_erased_event or in
\* the perform callback of a proxy
HandlerEntryStep ==
    \/ \E activity \in {"Entry", "AfterWaiting"} :
           control_flow_begin_handler(activity)
    \/ \E activity \in {"BeforeWaiting", "Exit"} :
           control_flow_end_handler(activity)
    \/ application_did_finish_launching
    \/ \E reenters \in BOOLEAN : did_become_active(reenters)
    \/ \E s \in Senders : event_loop_proxy_handler(s)
    \/ \E windows \in 0..MaxWindows : will_terminate(windows)

\* C35 as stated: will_terminate with a registered handler hands the callback
\* a Destroyed event for each application window and then LoopDestroyed, with
\* the handler unregistered and torn down by the end of the step; once
\* LoopDestroyed was delivered the callback receives nothing more, and every
\* later lifecycle callback is fatal with the no-running-EventLoop diagnostic.
C35_WindowsDestroyedThenLoopDestroyed ==
    [][/\ \A windows \in 0..MaxWindows :
             (will_terminate(windows) /\ EVENT_HANDLER = "Some")
                 => /\ fatal' = "none"
                    /\ delivered' = [w \in 1..windows |-> WindowDestroyed(w)]
                                        \o <<LoopDestroyed>>
                    /\ EVENT_HANDLER' = "None"
                    /\ ~receiver_alive'
       /\ (stream = "destroyed" /\ HandlerEntryStep)
             => /\ delivered' = <<>>
                /\ fatal' = "attempt to process an event without a running EventLoop"]_vars

\* C36: handle_events_cleared before launch (NotLaunched or Launching)
\* returns at once: phase, queued windows and events, stored policy, waker and
\* every other field stay as they are and the callback is not invoked; in
\* Waiting, PollFinished or Terminated it is fatal, the callback is not invoked
\* and the state stays as it is.
C36_ClearedOutsideProcessing ==
    [][(handle_events_cleared /\ phase # "ProcessingEvents")
          => /\ delivered' = <<>>
             /\ made_key' = <<>>
             /\ UNCHANGED <<phase, queued_windows, queued_events,
                            control_flow, waker, event_handler, start,
                            active_control_flow, rc, user_queue,
                            handler_drops>>
             /\ phase \in {"NotLaunched", "Launching"} => fatal' = "none"
             /\ phase \in {"Waiting", "PollFinished", "Terminated"}
                    => fatal' = "EventHandler expected to be processing events, but was not"]_vars

\* C36 witness: handle_events_cleared returned in phase Launching with a
\* window and an event queued and the callback installed.
C36_Witness ==
    /\ last.op = "handle_events_cleared"
    /\ fatal = "none"
    /\ phase = "Launching"
    /\ queued_windows # <<>>
    /\ queued_events # <<>>
    /\ delivered = <<>>

\* how far the window registration has come
SharedRank(variant) ==
    IF variant = "UnconfiguredWindow" THEN 0
    ELSE IF variant = "ConfiguredWindow" THEN 1
    ELSE 2

\* C37: no step moves Shared backward or past the next variant; Shared::run
\* is fatal and calls no closure when no window is configured and when Shared
\* is already Running, and from ConfiguredWindow calls its closure once and
\* leaves Running; as_running returns a value exactly when Shared is Running
\* and changes nothing.
C37_SharedMovesForward ==
    [][/\ SharedRank(shared') \in {SharedRank(shared), SharedRank(shared) + 1}
       /\ closure_calls' \in {closure_calls, closure_calls + 1}
       /\ start_running =>
              IF shared = "ConfiguredWindow"
              THEN /\ fatal' = "none"
                   /\ shared' = "Running"
                   /\ closure_calls' = closure_calls + 1
              ELSE /\ fatal' # "none"
                   /\ shared' = shared
                   /\ closure_calls' = closure_calls
       /\ ~start_running => closure_calls' = closure_calls
       /\ as_running =>
              /\ (result' = "Some") <=> (shared = "Running")
              /\ result' \in {"Some", "None"}
              /\ UNCHANGED <<shared, shared_config, closure_calls>>]_vars

\* C37 witness: a window was configured, Shared::run called its closure once,
\* and as_running on the Running state returned a value.
C37_Witness ==
    /\ last.op = "as_running"
    /\ result = "Some"
    /\ shared = "Running"
    /\ closure_calls = 1
    /\ shared_config \in Configs

\* C38: the first AppState::get_mut derives the capabilities from the major
\* version m the operating system reports: it fails for m < 8 and stores
\* supports_safe_area = (m >= 11) otherwise; a later get_mut derives nothing
\* and creates nothing, and no step changes the stored value or the version.
C38_CapabilitiesFromMajorOnce ==
    [][/\ (AppState_get_mut /\ capabilities = <<>>)
           => IF os_major < 8
              THEN fatal' # "none" /\ capabilities' = <<>>
              ELSE /\ fatal' = "none"
                   /\ capabilities' = <<os_major >= 11>>
       /\ (AppState_get_mut /\ capabilities # <<>>)
           => fatal' = "none" /\ timers' = timers
       /\ capabilities # <<>> => capabilities' = capabilities
       /\ os_major' = os_major]_vars

\* C38 witness: on major version 11 the state was created with the safe area
\* supported, was asked for again, and the lifecycle ran to its end on it.
C38_Witness ==
    /\ os_major = 11
    /\ capabilities = <<TRUE>>
    /\ timers = 1
    /\ phase = "Terminated"
    /\ last.op = "get_mut"

====
